---- MODULE Spec2Model ----
(***************************************************************************)
(* Session lifecycle and video management of src/src/mame.c.               *)
(*                                                                         *)
(* The program state is the set of globals of mame.c (bailing,             *)
(* game_loaded, settingsloaded, gamedrv, the Machine object, options,      *)
(* pause_action, visible_area_changed).  The collaborators that mame.c     *)
(* calls (OSD layer, input, ROM loader, CPU, memory, palette, ...) are     *)
(* represented by what they hold (held), by releases that found nothing    *)
(* to release (bad), by the stack of resource-tracking levels (tracked)    *)
(* and by the ordered log of the calls made since the session start        *)
(* (calls).                                                                *)
(***************************************************************************)
EXTENDS Integers, Sequences, FiniteSets, TLC

VARIABLES
    bailing,              \* int bailing
    game_loaded,          \* static int game_loaded
    settingsloaded,       \* static int settingsloaded
    gamedrv,              \* static const struct GameDriver *gamedrv (index into drivers, 0 = NULL)
    Machine,              \* static struct RunningMachine active_machine
    options,              \* struct GameOptions options
    pause_action,         \* void (*pause_action)(void)
    visible_area_changed, \* static UINT8 visible_area_changed
    held,                 \* collaborator resources currently acquired
    bad,                  \* releases of something not acquired or already freed
    tracked,              \* stack of resource-tracking levels (auto-released resources)
    calls,                \* calls made since the latest run_game began, in order
    printed,              \* diagnostics printed since the latest run_game began
    recomputes,           \* cpu_compute_scanline_timing calls since the latest run_game began
    failed_at,            \* the step that failed in the latest run_game, or "none"
    running,              \* cpu_run has been entered in this session
    rv,                   \* return value of the latest run_game
    op,                   \* the entry point executed last
    arg,                  \* the bounds passed to the latest set_visible_area entry
    sessions,             \* number of run_game calls so far
    full_refresh_pending,     \* static UINT8 full_refresh_pending
    last_partial_scanline,    \* static int last_partial_scanline
    performance,              \* static struct performance_info performance
    gbPriorityBitmapIsDirty,  \* int gbPriorityBitmapIsDirty
    skip,                     \* the platform's current answer to osd_skip_this_frame()
    updates,                  \* bitmap clears and video_update callbacks since the latest
                              \* reset_partial_updates, in order
    fpu,                      \* what the latest entry point did through force_partial_update
    requested,                \* the highest scanline requested since the latest
                              \* reset_partial_updates or frame-skip decision, if any
    owed,                     \* a refresh was pending at the latest reset_partial_updates
                              \* and no frame has been skipped since
    steady,                   \* the visible area is what it was at the latest
                              \* reset_partial_updates (FALSE before the first one)
    internal_drv,             \* static struct InternalMachineDriver internal_drv (cpu, sound)
    reg,                      \* the latest slot-table call: its arguments and what it returned
    chd,                      \* the latest mame_chd_open call: arguments, opens made, result
    gfx,                      \* the latest decode_graphics element: its input and its layout copy
    params                    \* struct osd_create_params params of vh_open (the aspect ratio),
                              \* with the driver fields it is computed from

\* The state of the partial-update scheduler, and what is recorded about it.
render == <<full_refresh_pending, last_partial_scanline, performance,
            gbPriorityBitmapIsDirty, skip, updates, fpu, requested, owed>>

\* The state of the machine-driver tables, of the disk-image adapter and of the decoder.
registry == <<internal_drv, reg>>
storage == <<chd>>
decoder == <<gfx, params>>

\* The globals of the session lifecycle, and what is recorded about them.
lifecycle == <<bailing, game_loaded, settingsloaded, gamedrv, Machine, options, pause_action,
               visible_area_changed, held, bad, tracked, calls, printed, recomputes,
               failed_at, running, rv, arg, sessions>>

vars == <<lifecycle, op, render, steady, registry, storage, decoder>>

(***************************************************************************)
(* Bounds of the model.                                                    *)
(***************************************************************************)
MaxSessions == 2
MaxGfx == 2
MaxCoord == 1
MaxRecompute == 3
MaxRowChange == 2
MaxScanline == 2
MaxCpu == 3
MaxSound == 2
MaxRegion == 4
MaxTotal == 3
MaxAspect == 2

(***************************************************************************)
(* Data.                                                                   *)
(***************************************************************************)
Rect(a, b, c, d) == [min_x |-> a, max_x |-> b, min_y |-> c, max_y |-> d]

Areas == {Rect(a, b, c, d) : a \in 0..MaxCoord, b \in 0..MaxCoord,
                              c \in 0..MaxCoord, d \in 0..MaxCoord}

\* The table of game drivers, each with the fields of its constructed machine driver.
drivers == <<
    [name |-> "parent", clone_of |-> 3, input_ports |-> TRUE, rom |-> TRUE,
     driver_init |-> TRUE, video_start |-> TRUE, video_stop |-> TRUE,
     nvram_handler |-> TRUE, gfxdecodeinfo |-> 3,
     default_visible_area |-> Rect(0, 1, 0, 1)],
    [name |-> "clone", clone_of |-> 1, input_ports |-> TRUE, rom |-> TRUE,
     driver_init |-> FALSE, video_start |-> TRUE, video_stop |-> TRUE,
     nvram_handler |-> FALSE, gfxdecodeinfo |-> 1,
     default_visible_area |-> Rect(0, 0, 1, 1)],
    [name |-> "bare", clone_of |-> 0, input_ports |-> FALSE, rom |-> FALSE,
     driver_init |-> FALSE, video_start |-> FALSE, video_stop |-> FALSE,
     nvram_handler |-> FALSE, gfxdecodeinfo |-> 0,
     default_visible_area |-> Rect(1, 1, 0, 1)] >>

Games == 1..Len(drivers)

\* The memory regions a driver with ROMs loads; "gfx1" carries ROMREGION_DISPOSE.
Regions == {"cpu1", "gfx1"}
Disposable == {"gfx1"}

Resources == {"osd", "tracking", "uistring", "code", "input_ports", "input_ports_default",
              "regions", "cpu", "memory", "palette", "gfx", "display", "scrbitmap",
              "uifont", "tilemap", "video", "sound", "cheat"}

\* Resources obtained from the tracked allocator: they go with their tracking level.
AutoResources == {"palette", "scrbitmap"}

\* The steps of a session start that can fail; idx is the element for decodegfx.
Step(name) == [at |-> name, idx |-> 0]
FailPoints ==
    {Step(n) : n \in {"none", "osd_init", "uistring_init", "code_init",
                      "input_port_allocate(input_ports)",
                      "input_port_allocate(input_ports_default)",
                      "rom_load", "memory_init", "palette_start",
                      "artwork_create_display", "auto_bitmap_alloc_depth",
                      "builduifont", "palette_init", "video_start", "sound_start"}}
    \cup {[at |-> "decodegfx", idx |-> i] : i \in 0..(MaxGfx - 1)}

\* The outcomes of the collaborators during one run_game.
Inputs == [fail : FailPoints, loaded : {0, 1}]

OptionSets ==
    {[cheat |-> 1, skip_disclaimer |-> 1, skip_warnings |-> 1],
     [cheat |-> 0, skip_disclaimer |-> 1, skip_warnings |-> 0],
     [cheat |-> 1, skip_disclaimer |-> 0, skip_warnings |-> 0]}

(***************************************************************************)
(* The state as one record, so that the code's sequential composition is   *)
(* function composition.                                                   *)
(***************************************************************************)
St == [bailing |-> bailing, game_loaded |-> game_loaded, settingsloaded |-> settingsloaded,
       gamedrv |-> gamedrv, Machine |-> Machine, options |-> options,
       pause_action |-> pause_action, visible_area_changed |-> visible_area_changed,
       held |-> held, bad |-> bad, tracked |-> tracked, calls |-> calls,
       printed |-> printed, recomputes |-> recomputes, failed_at |-> failed_at,
       running |-> running, rv |-> rv]

Commit(s) ==
    /\ bailing' = s.bailing
    /\ game_loaded' = s.game_loaded
    /\ settingsloaded' = s.settingsloaded
    /\ gamedrv' = s.gamedrv
    /\ Machine' = s.Machine
    /\ options' = s.options
    /\ pause_action' = s.pause_action
    /\ visible_area_changed' = s.visible_area_changed
    /\ held' = s.held
    /\ bad' = s.bad
    /\ tracked' = s.tracked
    /\ calls' = s.calls
    /\ printed' = s.printed
    /\ recomputes' = s.recomputes
    /\ failed_at' = s.failed_at
    /\ running' = s.running
    /\ rv' = s.rv
    /\ steady' = (steady /\ s.Machine.visible_area = Machine.visible_area)

Call(s, f) == [s EXCEPT !.calls = Append(@, f)]
Acquire(s, r) == [s EXCEPT !.held[r] = @ + 1]
Release(s, r) ==
    IF s.held[r] > 0 THEN [s EXCEPT !.held[r] = @ - 1] ELSE [s EXCEPT !.bad[r] = @ + 1]
Fails(in, name) == in.fail = Step(name)
Failed(s, name) == [s EXCEPT !.failed_at = name]
drv(s) == drivers[s.gamedrv]

(***************************************************************************)
(* Collaborators, as far as mame.c relies on them.                         *)
(***************************************************************************)

\* begin_resource_tracking: opens a new tracking level.
begin_resource_tracking(s) ==
    LET s1 == Acquire(Call(s, "begin_resource_tracking"), "tracking")
    IN  [s1 EXCEPT !.tracked = Append(@, {})]

\* end_resource_tracking: closes the innermost level and frees what it tracked.
end_resource_tracking(s) ==
    LET s1 == Release(Call(s, "end_resource_tracking"), "tracking")
    IN  IF Len(s.tracked) = 0 THEN s1
        ELSE LET top == s.tracked[Len(s.tracked)]
             IN  [s1 EXCEPT
                    !.tracked = SubSeq(@, 1, Len(@) - 1),
                    !.held = [r \in Resources |-> IF r \in top THEN @[r] - 1 ELSE @[r]],
                    !.Machine.scrbitmap =
                        IF "scrbitmap" \in top /\ @ = "live" THEN "freed" ELSE @]

\* An allocation from the tracked allocator (auto_malloc, auto_bitmap_alloc_depth).
AutoAcquire(s, r) ==
    LET s1 == Acquire(s, r)
    IN  IF Len(s.tracked) = 0 THEN s1
        ELSE [s1 EXCEPT !.tracked[Len(s.tracked)] = @ \cup {r}]

\* input_port_free(Machine-><field>): frees the instance the field points to.
\* The field keeps its value, so afterwards it points to a freed instance.
input_port_free(s, field) ==
    LET p  == s.Machine[field]
        s1 == Call(s, IF field = "input_ports" THEN "input_port_free(input_ports)"
                      ELSE "input_port_free(input_ports_default)")
    IN  CASE p = "null"  -> s1
          [] p = "live"  -> [Release(s1, field) EXCEPT !.Machine[field] = "freed"]
          [] p = "freed" -> [s1 EXCEPT !.bad[field] = @ + 1]

code_close(s) == Release(Call(s, "code_close"), "code")

\* free_memory_region(i) for every region: frees the regions still allocated.
free_memory_regions(s) ==
    LET n == Cardinality({r \in Regions : s.Machine.memory_region[r] = "live"})
    IN  [Call(s, "free_memory_region") EXCEPT
            !.held["regions"] = @ - n,
            !.Machine.memory_region = [r \in Regions |-> "null"]]

\* freegfx(Machine->gfx[i]) / freegfx(Machine->uifont): a null pointer frees nothing.
freegfx(s, p, r) ==
    LET s1 == Call(s, IF r = "gfx" THEN "freegfx(gfx)" ELSE "freegfx(font)")
    IN  CASE p = "null"  -> s1
          [] p = "live"  -> Release(s1, r)
          [] p = "freed" -> [s1 EXCEPT !.bad[r] = @ + 1]

(***************************************************************************)
(* bail_and_print                                                          *)
(***************************************************************************)
bail_and_print_nolatch(s, message) ==
    [s EXCEPT !.bailing = 1, !.printed = Append(@, message)]

bail_and_print(s, message) ==
    IF s.bailing = 0
    THEN [s EXCEPT !.bailing = 1, !.printed = Append(@, message)]
    ELSE s

(***************************************************************************)
(* init_machine: the cleanup labels, then the body from the bottom up.     *)
(***************************************************************************)
\* cant_allocate_input_ports: code_close(); cant_init_input: return 1
cant_allocate_input_ports(s) == [code_close(s) EXCEPT !.rv = 1]

\* cant_allocate_input_ports_default:
cant_allocate_input_ports_default(s) ==
    LET s1 == input_port_free(s, "input_ports")
    IN  cant_allocate_input_ports([s1 EXCEPT !.Machine.input_ports = "null"])

\* cant_init_memory: cant_load_roms:
cant_load_roms(s) ==
    LET s1 == input_port_free(s, "input_ports_default")
    IN  cant_allocate_input_ports_default([s1 EXCEPT !.Machine.input_ports_default = "null"])

\* chd_set_interface ... return 0 (lines 366-416)
init_machine_load(s, in) ==
    LET s1 == Call(s, "chd_set_interface")
        s2 == IF drv(s).rom THEN Call(s1, "rom_load") ELSE s1
    IN  IF drv(s).rom /\ Fails(in, "rom_load")
        THEN cant_load_roms(Failed(s2, "rom_load"))
        ELSE
        LET s3 == IF drv(s).rom
                  THEN [s2 EXCEPT !.held["regions"] = @ + Cardinality(Regions),
                                  !.Machine.memory_region = [r \in Regions |-> "live"]]
                  ELSE s2
            s4 == Call(Call(s3, "timer_init"), "cpu_init_refresh_timer")
            s5 == Acquire(Call(s4, "cpu_init"), "cpu")
            s6 == [Call(s5, "load_input_port_settings") EXCEPT !.settingsloaded = in.loaded]
            s7 == Call(s6, "memory_init")
        IN  IF Fails(in, "memory_init")
            THEN cant_load_roms(Failed(s7, "memory_init"))
            ELSE
            LET s8 == Acquire(s7, "memory")
                s9 == IF drv(s).driver_init THEN Call(s8, "driver_init") ELSE s8
            IN  [s9 EXCEPT !.rv = 0]

\* The same block with the test of gamedrv->input_ports dropped.
init_machine_input_ports_unguarded(s, in) ==
    LET s1 == Call(s, "input_port_allocate(input_ports)")
    IN  IF Fails(in, "input_port_allocate(input_ports)")
        THEN cant_allocate_input_ports(
                 Failed([s1 EXCEPT !.Machine.input_ports = "null"],
                        "input_port_allocate(input_ports)"))
        ELSE
        LET s2 == [Acquire(s1, "input_ports") EXCEPT !.Machine.input_ports = "live"]
            s3 == Call(s2, "input_port_allocate(input_ports_default)")
        IN  IF Fails(in, "input_port_allocate(input_ports_default)")
            THEN cant_allocate_input_ports_default(
                     Failed([s3 EXCEPT !.Machine.input_ports_default = "null"],
                            "input_port_allocate(input_ports_default)"))
            ELSE init_machine_load(
                     [Acquire(s3, "input_ports_default")
                        EXCEPT !.Machine.input_ports_default = "live"], in)

\* if (gamedrv->input_ports) { allocate both instances } (lines 346-364), then the rest
init_machine_input_ports(s, in) ==
    IF drv(s).input_ports
    THEN LET s1 == Call(s, "input_port_allocate(input_ports)")
         IN  IF Fails(in, "input_port_allocate(input_ports)")
             THEN cant_allocate_input_ports(
                      Failed([s1 EXCEPT !.Machine.input_ports = "null"],
                             "input_port_allocate(input_ports)"))
             ELSE
             LET s2 == [Acquire(s1, "input_ports") EXCEPT !.Machine.input_ports = "live"]
                 s3 == Call(s2, "input_port_allocate(input_ports_default)")
             IN  IF Fails(in, "input_port_allocate(input_ports_default)")
                 THEN cant_allocate_input_ports_default(
                          Failed([s3 EXCEPT !.Machine.input_ports_default = "null"],
                                 "input_port_allocate(input_ports_default)"))
                 ELSE init_machine_load(
                          [Acquire(s3, "input_ports_default")
                             EXCEPT !.Machine.input_ports_default = "live"], in)
    ELSE init_machine_load(s, in)

init_machine(s, in) ==
    LET s1 == Call(Call(s, "init_machine"), "uistring_init")
    IN  IF Fails(in, "uistring_init")
        THEN [Failed(s1, "uistring_init") EXCEPT !.rv = 1]
        ELSE
        LET s2 == Call(Acquire(s1, "uistring"), "code_init")
        IN  IF Fails(in, "code_init")
            THEN [Failed(s2, "code_init") EXCEPT !.rv = 1]
            ELSE init_machine_input_ports(Acquire(s2, "code"), in)

(***************************************************************************)
(* shutdown_machine                                                        *)
(***************************************************************************)
shutdown_machine(s) ==
    LET s1 == Release(Call(Call(s, "shutdown_machine"), "memory_shutdown"), "memory")
        s2 == free_memory_regions(s1)
        s3 == Call(s2, "chd_close_all")
        s4 == Release(Call(s3, "cpu_exit"), "cpu")
        s5 == input_port_free(s4, "input_ports")
        s6 == input_port_free(s5, "input_ports_default")
        s7 == code_close(s6)
    IN  Call(s7, "state_save_reset")

(***************************************************************************)
(* Video: set_visible_area, decode_graphics, vh_close, vh_open             *)
(***************************************************************************)
\* Without the early return: every call dirties the area and recomputes.
set_visible_area_always(s, b) ==
    [s EXCEPT !.visible_area_changed = 1,
              !.Machine.visible_area = b,
              !.Machine.absolute_visible_area = b,
              !.recomputes = @ + 1]

set_visible_area(s, b) ==
    IF /\ s.Machine.visible_area.min_x = b.min_x
       /\ s.Machine.visible_area.max_x = b.max_x
       /\ s.Machine.visible_area.min_y = b.min_y
       /\ s.Machine.visible_area.max_y = b.max_y
    THEN s
    ELSE LET s1 == [s EXCEPT !.visible_area_changed = 1,
                             !.Machine.visible_area = b]
         IN  [s1 EXCEPT !.Machine.absolute_visible_area = s1.Machine.visible_area,
                        !.recomputes = @ + 1]

\* The loop of decode_graphics from element i on.
RECURSIVE decode_graphics_from(_, _, _)
decode_graphics_from(s, in, i) ==
    IF i < MaxGfx /\ i < drv(s).gfxdecodeinfo
    THEN LET s1 == Call(s, "decodegfx")
         IN  IF in.fail = [at |-> "decodegfx", idx |-> i]
             THEN [Failed(s1, "decodegfx") EXCEPT
                      !.Machine.gfx[i] = "null",
                      !.bailing = 1,
                      !.printed = Append(@, "Out of memory decoding gfx"),
                      !.rv = 1]
             ELSE decode_graphics_from(
                      [Acquire(s1, "gfx") EXCEPT !.Machine.gfx[i] = "live"], in, i + 1)
    ELSE [s EXCEPT !.rv = 0]

decode_graphics(s, in) == decode_graphics_from(Call(s, "decode_graphics"), in, 0)

\* The loop of vh_close over Machine->gfx[] from element i on.
RECURSIVE vh_close_gfx(_, _)
vh_close_gfx(s, i) ==
    IF i < MaxGfx
    THEN vh_close_gfx([freegfx(s, s.Machine.gfx[i], "gfx") EXCEPT !.Machine.gfx[i] = "null"],
                      i + 1)
    ELSE s

vh_close(s) ==
    LET s1 == vh_close_gfx(Call(s, "vh_close"), 0)
        s2 == IF s1.Machine.uifont # "null"
              THEN [freegfx(s1, s1.Machine.uifont, "uifont") EXCEPT !.Machine.uifont = "null"]
              ELSE s1
        s3 == IF s2.Machine.debugger_font # "null"
              THEN [freegfx(s2, s2.Machine.debugger_font, "uifont")
                      EXCEPT !.Machine.debugger_font = "null"]
              ELSE s2
    IN  Release(Call(s3, "osd_close_display"), "display")

\* cant_init_palette: ... cant_start_palette: vh_close(); return 1
cant_start_palette(s) == [vh_close(s) EXCEPT !.rv = 1]

\* vh_open from "set the default visible area" on (lines 714-739).
vh_open_visible_area(s, in) ==
    LET s1 == set_visible_area(s, Rect(0, 1, 0, 1))
        s2 == set_visible_area(s1, drv(s).default_visible_area)
        s3 == Call(s2, "builduifont")
    IN  IF Fails(in, "builduifont")
        THEN cant_start_palette(Failed([s3 EXCEPT !.Machine.uifont = "null"], "builduifont"))
        ELSE
        LET s4 == [Acquire(s3, "uifont") EXCEPT !.Machine.uifont = "live"]
            s5 == Call(s4, "palette_init")
        IN  IF Fails(in, "palette_init")
            THEN cant_start_palette(Failed(s5, "palette_init"))
            ELSE [s5 EXCEPT !.rv = 0]

\* vh_open from the display creation on (lines 679-712).
vh_open_display(s, in) ==
    LET s1 == Call(s, "artwork_create_display")
    IN  IF Fails(in, "artwork_create_display")
        THEN cant_start_palette(Failed(s1, "artwork_create_display"))
        ELSE
        LET s2 == Call(Acquire(s1, "display"), "auto_bitmap_alloc_depth")
        IN  IF Fails(in, "auto_bitmap_alloc_depth")
            THEN cant_start_palette(
                     Failed([s2 EXCEPT !.Machine.scrbitmap = "null"], "auto_bitmap_alloc_depth"))
            ELSE vh_open_visible_area(
                     [AutoAcquire(s2, "scrbitmap") EXCEPT !.Machine.scrbitmap = "live"], in)

vh_open(s, in) ==
    LET s1 == Call(Call(s, "vh_open"), "palette_start")
    IN  IF Fails(in, "palette_start")
        THEN cant_start_palette(Failed(s1, "palette_start"))
        ELSE
        LET s2 == AutoAcquire(s1, "palette")
            s3 == IF drv(s).gfxdecodeinfo # 0 THEN decode_graphics(s2, in)
                  ELSE [s2 EXCEPT !.rv = 0]
        IN  IF s3.rv # 0
            THEN cant_start_palette(s3)
            ELSE vh_open_display(s3, in)

(***************************************************************************)
(* Execution bracket: run_machine_core, run_machine and their teardown     *)
(***************************************************************************)
\* showcopyright / showgamewarnings put their screen up and wait for the user.
showcopyright(s) == [Call(s, "showcopyright") EXCEPT !.pause_action = "pause_action_showcopyright"]
showgamewarnings(s) ==
    [Call(s, "showgamewarnings") EXCEPT !.pause_action = "pause_action_showgamewarnings"]

\* The user acknowledges the screen being shown.
acknowledge(s) ==
    IF s.pause_action = "pause_action_showcopyright"
    THEN showgamewarnings(s)
    ELSE [s EXCEPT !.pause_action = "pause_action_start_emulator"]

\* Without the gate: the start of the emulator is armed at once.
run_machine_core_ungated(s) ==
    [Call(Call(s, "run_machine_core"), "artwork_enable(0)")
        EXCEPT !.pause_action = "pause_action_start_emulator"]

run_machine_core(s) ==
    LET s1 == Call(Call(s, "run_machine_core"), "artwork_enable(0)")
    IN  IF s1.settingsloaded # 0 \/ s1.options.skip_disclaimer # 0
        THEN IF s1.options.skip_warnings # 0
             THEN [s1 EXCEPT !.pause_action = "pause_action_start_emulator"]
             ELSE showgamewarnings(s1)
        ELSE showcopyright(s1)

pause_action_start_emulator(s, nvram_file) ==
    LET s1 == Call(Call(Call(s, "pause_action_start_emulator"), "init_user_interface"),
                   "artwork_enable(1)")
        s2 == IF ~drv(s).rom THEN [s1 EXCEPT !.options.cheat = 0] ELSE s1
        s3 == IF s2.options.cheat # 0 THEN Acquire(Call(s2, "InitCheat"), "cheat") ELSE s2
        s4 == IF drv(s).nvram_handler THEN Call(s3, "nvram_handler(load)") ELSE s3
        s5 == [Call(s4, "cpu_run") EXCEPT !.running = TRUE]
    IN  [s5 EXCEPT !.pause_action = "null"]

run_machine_core_done(s, nvram_file) ==
    LET s1 == Call(s, "run_machine_core_done")
        s2 == IF drv(s).nvram_handler /\ nvram_file
              THEN Call(s1, "nvram_handler(save)")
              ELSE s1
        s3 == IF s2.options.cheat # 0 THEN Release(Call(s2, "StopCheat"), "cheat") ELSE s2
    IN  Call(s3, "save_input_port_settings")

\* if (Machine->drv->video_stop) (*Machine->drv->video_stop)();
video_stop(s) ==
    IF drv(s).video_stop THEN Release(Call(s, "video_stop"), "video") ELSE s

tilemap_close(s) == Release(Call(s, "tilemap_close"), "tilemap")

\* The loop of run_machine over the regions flagged ROMREGION_DISPOSE.
dispose_regions(s) ==
    LET d == {r \in Disposable : s.Machine.memory_region[r] = "live"}
    IN  [s EXCEPT !.held["regions"] = @ - Cardinality(d),
                  !.Machine.memory_region = [r \in Regions |-> IF r \in d THEN "null" ELSE @[r]]]

\* run_machine once vh_open has succeeded (lines 449-489).
run_machine_video(s, in) ==
    LET s1 == Acquire(Call(s, "tilemap_init"), "tilemap")
        s2 == IF drv(s).video_start THEN Call(s1, "video_start") ELSE s1
    IN  IF drv(s).video_start /\ Fails(in, "video_start")
        THEN LET s3 == bail_and_print(Failed(s2, "video_start"), "Unable to start video emulation")
             IN  [vh_close(tilemap_close(s3)) EXCEPT !.rv = 1]
        ELSE
        LET s4 == IF drv(s).video_start THEN Acquire(s2, "video") ELSE s2
            s5 == Call(s4, "sound_start")
        IN  IF Fails(in, "sound_start")
            THEN LET s6 == bail_and_print(Failed(s5, "sound_start"),
                                          "Unable to start audio emulation")
                 IN  [vh_close(tilemap_close(video_stop(s6))) EXCEPT !.rv = 1]
            ELSE [run_machine_core(dispose_regions(Acquire(s5, "sound"))) EXCEPT !.rv = 0]

run_machine(s, in) ==
    LET s1 == vh_open(Call(s, "run_machine"), in)
    IN  IF s1.rv # 0
        THEN [bail_and_print(s1, "Unable to start video emulation") EXCEPT !.rv = 1]
        ELSE run_machine_video(s1, in)

run_machine_done(s) ==
    LET s1 == Release(Call(Call(s, "run_machine_done"), "sound_stop"), "sound")
    IN  vh_close(tilemap_close(video_stop(s1)))

(***************************************************************************)
(* run_game, run_game_done, mame_done                                      *)
(***************************************************************************)
\* memset(Machine, 0, sizeof(Machine)): Machine is a pointer, so the bytes cleared
\* are those of the first pointer-sized field of the object, gamedrv.
memset_Machine(s) == [s EXCEPT !.Machine.gamedrv = 0]

init_game_options(s) ==
    [Call(s, "init_game_options") EXCEPT !.Machine.color_depth = 16, !.rv = 0]

\* The innermost else of run_game: game_loaded = 1; return 0;
run_game_loaded(s) == [s EXCEPT !.game_loaded = 1, !.rv = 0]

\* run_game once init_machine has succeeded (lines 296-306).
run_game_machine(s, in) ==
    LET s1 == run_machine(s, in)
    IN  IF s1.rv # 0
        THEN shutdown_machine(bail_and_print(s1, "Unable to start machine emulation"))
        ELSE run_game_loaded(s1)

\* run_game_osd with the test of init_machine's result dropped: run_machine is entered
\* whatever init_machine returned.
run_game_osd_unchecked(s, in) ==
    LET s1 == init_machine(begin_resource_tracking(s), in)
        s2 == run_game_machine(s1, in)
    IN  IF s2.game_loaded = 1 /\ s2.rv = 0
        THEN s2
        ELSE [end_resource_tracking(
                  Release(Call(end_resource_tracking(s2), "osd_exit"), "osd"))
                EXCEPT !.rv = 1]

\* run_game once osd_init has succeeded (lines 289-315).
run_game_osd(s, in) ==
    LET s1 == init_machine(begin_resource_tracking(s), in)
        s2 == IF s1.rv # 0
              THEN [bail_and_print(s1, "Unable to initialize machine emulation")
                      EXCEPT !.rv = 1]
              ELSE run_game_machine(s1, in)
    IN  IF s2.rv = 0
        THEN s2
        ELSE [end_resource_tracking(
                  Release(Call(end_resource_tracking(s2), "osd_exit"), "osd"))
                EXCEPT !.rv = 1]

run_game(s, game, in) ==
    LET s1 == memset_Machine(begin_resource_tracking(Call(s, "run_game")))
        s2 == [s1 EXCEPT !.Machine.gamedrv = game, !.gamedrv = game, !.Machine.drv = game]
        s3 == init_game_options(s2)
    IN  IF s3.rv # 0
        THEN [s3 EXCEPT !.rv = 1]
        ELSE
        LET s4 == Call([s3 EXCEPT !.bailing = 0], "osd_init")
        IN  IF Fails(in, "osd_init")
            THEN [end_resource_tracking(
                      bail_and_print(Failed(s4, "osd_init"), "Unable to initialize system"))
                    EXCEPT !.rv = 1]
            ELSE run_game_osd(Acquire(s4, "osd"), in)

\* run_game_done without the call of shutdown_machine.
run_game_done_noshutdown(s) ==
    LET s1 == end_resource_tracking(Call(s, "run_game_done"))
    IN  end_resource_tracking(Release(Call(s1, "osd_exit"), "osd"))

run_game_done(s) ==
    LET s1 == end_resource_tracking(shutdown_machine(Call(s, "run_game_done")))
    IN  end_resource_tracking(Release(Call(s1, "osd_exit"), "osd"))

cpu_run_done(s) == [Call(s, "cpu_run_done") EXCEPT !.running = FALSE]

\* mame_done with the machine torn down before the execution bracket.
mame_done_swapped(s, nvram_file) ==
    LET s1 == IF s.game_loaded # 0
              THEN run_machine_done(
                       run_machine_core_done(
                           run_game_done(cpu_run_done(Call(s, "mame_done"))), nvram_file))
              ELSE s
    IN  [s1 EXCEPT !.game_loaded = 0]

mame_done(s, nvram_file) ==
    LET s1 == IF s.game_loaded # 0
              THEN run_game_done(
                       run_machine_done(
                           run_machine_core_done(
                               cpu_run_done(Call(s, "mame_done")), nvram_file)))
              ELSE s
    IN  [s1 EXCEPT !.game_loaded = 0]

(***************************************************************************)
(* The partial-update scheduler.  Its functions work on the record Rs of   *)
(* what they read and write; the frame bitmap and the driver's callback    *)
(* are represented by the log of what was done to them (updates).          *)
(***************************************************************************)
Rs == [visible_area |-> Machine.visible_area, skip |-> skip,
       full_refresh_pending |-> full_refresh_pending,
       last_partial_scanline |-> last_partial_scanline,
       performance |-> performance,
       gbPriorityBitmapIsDirty |-> gbPriorityBitmapIsDirty,
       updates |-> updates]

CommitRender(r) ==
    /\ full_refresh_pending' = r.full_refresh_pending
    /\ last_partial_scanline' = r.last_partial_scanline
    /\ performance' = r.performance
    /\ gbPriorityBitmapIsDirty' = r.gbPriorityBitmapIsDirty
    /\ updates' = r.updates

\* The platform's answer for the frame being produced.
osd_skip_this_frame(r) == r.skip

\* fillbitmap(bitmap, pen, NULL): the whole bitmap is filled.  Only what is done to the
\* frame bitmap is recorded.
fillbitmap(r, bitmap) ==
    IF bitmap = "scrbitmap"
    THEN [r EXCEPT !.updates = Append(@, [f |-> "fillbitmap", bitmap |-> bitmap,
                                          clip |-> << >>])]
    ELSE r

\* (*Machine->drv->video_update)(Machine->scrbitmap, &clip); the driver's code may draw
\* into the priority bitmap while it renders (dirties).
video_update(r, clip, dirties) ==
    [r EXCEPT !.updates = Append(@, [f |-> "video_update", bitmap |-> "scrbitmap",
                                     clip |-> <<clip>>]),
              !.gbPriorityBitmapIsDirty = IF dirties THEN 1 ELSE @]

schedule_full_refresh(r) == [r EXCEPT !.full_refresh_pending = 1]

\* osd_pause, osd_sound_enable and the brightness adjustment leave the scheduler alone.
mame_pause(r, pause) == schedule_full_refresh(r)

reset_partial_updates_drop(r) ==
    [r EXCEPT !.last_partial_scanline = 0, !.performance.partial_updates_this_frame = 0,
              !.full_refresh_pending = 0]

reset_partial_updates_keep(r) ==
    [r EXCEPT !.performance.partial_updates_this_frame = 0]

reset_partial_updates(r) ==
    [r EXCEPT !.last_partial_scanline = 0, !.performance.partial_updates_this_frame = 0]

force_partial_update_unordered(r, scanline, dirties) ==
    LET clip == r.visible_area
    IN  IF osd_skip_this_frame(r) # 0 THEN r
        ELSE LET r1 == IF r.full_refresh_pending # 0 /\ r.last_partial_scanline = 0
                       THEN [fillbitmap(r, "scrbitmap") EXCEPT !.full_refresh_pending = 0]
                       ELSE r
                 clip1 == IF r1.last_partial_scanline > clip.min_y
                          THEN [clip EXCEPT !.min_y = r1.last_partial_scanline]
                          ELSE clip
                 clip2 == IF scanline < clip1.max_y
                          THEN [clip1 EXCEPT !.max_y = scanline]
                          ELSE clip1
                 r2 == IF clip2.min_y <= clip2.max_y
                       THEN [video_update(r1, clip2, dirties)
                                EXCEPT !.performance.partial_updates_this_frame = @ + 1]
                       ELSE r1
             IN  [r2 EXCEPT !.last_partial_scanline = scanline + 1]

force_partial_update_stuck(r, scanline, dirties) ==
    LET clip == r.visible_area
    IN  IF osd_skip_this_frame(r) # 0 THEN r
        ELSE IF scanline < r.last_partial_scanline THEN r
        ELSE LET r1 == IF r.full_refresh_pending # 0 /\ r.last_partial_scanline = 0
                       THEN [fillbitmap(r, "scrbitmap") EXCEPT !.full_refresh_pending = 0]
                       ELSE r
                 clip1 == IF r1.last_partial_scanline > clip.min_y
                          THEN [clip EXCEPT !.min_y = r1.last_partial_scanline]
                          ELSE clip
                 clip2 == IF scanline < clip1.max_y
                          THEN [clip1 EXCEPT !.max_y = scanline]
                          ELSE clip1
                 r2 == IF clip2.min_y <= clip2.max_y
                       THEN [video_update(r1, clip2, dirties)
                                EXCEPT !.performance.partial_updates_this_frame = @ + 1]
                       ELSE r1
             IN  r2

force_partial_update_unskipped(r, scanline, dirties) ==
    LET clip == r.visible_area
    IN  IF scanline < r.last_partial_scanline THEN r
        ELSE LET r1 == IF r.full_refresh_pending # 0 /\ r.last_partial_scanline = 0
                       THEN [fillbitmap(r, "scrbitmap") EXCEPT !.full_refresh_pending = 0]
                       ELSE r
                 clip1 == IF r1.last_partial_scanline > clip.min_y
                          THEN [clip EXCEPT !.min_y = r1.last_partial_scanline]
                          ELSE clip
                 clip2 == IF scanline < clip1.max_y
                          THEN [clip1 EXCEPT !.max_y = scanline]
                          ELSE clip1
                 r2 == IF clip2.min_y <= clip2.max_y
                       THEN [video_update(r1, clip2, dirties)
                                EXCEPT !.performance.partial_updates_this_frame = @ + 1]
                       ELSE r1
             IN  [r2 EXCEPT !.last_partial_scanline = scanline + 1]

force_partial_update_counted(r, scanline, dirties) ==
    LET clip == r.visible_area
    IN  IF osd_skip_this_frame(r) # 0 THEN r
        ELSE IF scanline < r.last_partial_scanline THEN r
        ELSE LET r1 == IF r.full_refresh_pending # 0 /\ r.last_partial_scanline = 0
                       THEN [fillbitmap(r, "scrbitmap") EXCEPT !.full_refresh_pending = 0]
                       ELSE r
                 clip1 == IF r1.last_partial_scanline > clip.min_y
                          THEN [clip EXCEPT !.min_y = r1.last_partial_scanline]
                          ELSE clip
                 clip2 == IF scanline < clip1.max_y
                          THEN [clip1 EXCEPT !.max_y = scanline]
                          ELSE clip1
                 r2 == IF clip2.min_y <= clip2.max_y
                       THEN video_update(r1, clip2, dirties)
                       ELSE r1
             IN  [r2 EXCEPT !.performance.partial_updates_this_frame = @ + 1,
                            !.last_partial_scanline = scanline + 1]

force_partial_update_eager(r, scanline, dirties) ==
    LET clip == r.visible_area
    IN  IF osd_skip_this_frame(r) # 0 THEN r
        ELSE IF scanline < r.last_partial_scanline THEN r
        ELSE LET r1 == IF r.full_refresh_pending # 0
                       THEN [fillbitmap(r, "scrbitmap") EXCEPT !.full_refresh_pending = 0]
                       ELSE r
                 clip1 == IF r1.last_partial_scanline > clip.min_y
                          THEN [clip EXCEPT !.min_y = r1.last_partial_scanline]
                          ELSE clip
                 clip2 == IF scanline < clip1.max_y
                          THEN [clip1 EXCEPT !.max_y = scanline]
                          ELSE clip1
                 r2 == IF clip2.min_y <= clip2.max_y
                       THEN [video_update(r1, clip2, dirties)
                                EXCEPT !.performance.partial_updates_this_frame = @ + 1]
                       ELSE r1
             IN  [r2 EXCEPT !.last_partial_scanline = scanline + 1]

force_partial_update(r, scanline, dirties) ==
    LET clip == r.visible_area
    IN  IF osd_skip_this_frame(r) # 0 THEN r
        ELSE IF scanline < r.last_partial_scanline THEN r
        ELSE LET r1 == IF r.full_refresh_pending # 0 /\ r.last_partial_scanline = 0
                       THEN [fillbitmap(r, "scrbitmap") EXCEPT !.full_refresh_pending = 0]
                       ELSE r
                 clip1 == IF r1.last_partial_scanline > clip.min_y
                          THEN [clip EXCEPT !.min_y = r1.last_partial_scanline]
                          ELSE clip
                 clip2 == IF scanline < clip1.max_y
                          THEN [clip1 EXCEPT !.max_y = scanline]
                          ELSE clip1
                 r2 == IF clip2.min_y <= clip2.max_y
                       THEN [video_update(r1, clip2, dirties)
                                EXCEPT !.performance.partial_updates_this_frame = @ + 1]
                       ELSE r1
             IN  [r2 EXCEPT !.last_partial_scanline = scanline + 1]

draw_screen_short(r, dirties) ==
    LET r1 == force_partial_update(r, r.visible_area.max_y - 1, dirties)
    IN  IF r1.gbPriorityBitmapIsDirty # 0
        THEN [fillbitmap(r1, "priority_bitmap") EXCEPT !.gbPriorityBitmapIsDirty = 0]
        ELSE r1

draw_screen(r, dirties) ==
    LET r1 == force_partial_update(r, r.visible_area.max_y, dirties)
    IN  IF r1.gbPriorityBitmapIsDirty # 0
        THEN [fillbitmap(r1, "priority_bitmap") EXCEPT !.gbPriorityBitmapIsDirty = 0]
        ELSE r1

\* The part of update_video_and_audio that changes the globals of mame.c.
update_video_and_audio(s) == [s EXCEPT !.visible_area_changed = 0]

\* The scheduler before the first frame of the process.
RenderAtRest ==
    /\ full_refresh_pending = 0
    /\ last_partial_scanline = 0
    /\ performance = [partial_updates_this_frame |-> 0]
    /\ gbPriorityBitmapIsDirty = 0
    /\ updates = << >>
    /\ fpu = [calls |-> 0, scanline |-> 0, skip |-> 0, drew |-> 0]
    /\ requested = {}
    /\ owed = FALSE
    /\ steady = FALSE

(***************************************************************************)
(* The CPU and sound tables of a machine driver.  A slot is the three      *)
(* fields the functions write; "NULL" is the null tag, 0 the null          *)
(* interface.  A function returns the table it leaves, the slot it found   *)
(* or wrote (slot, empty for none) and what it passed to logerror.         *)
(***************************************************************************)
CpuSlots == 0..(MaxCpu - 1)
SoundSlots == 0..(MaxSound - 1)

ZeroCpu == [tag |-> "NULL", cpu_type |-> 0, cpu_clock |-> 0]
ZeroSound == [tag |-> "NULL", sound_type |-> 0, sound_interface |-> 0]

\* memset(output, 0, sizeof(*output))
ZeroDriver == [cpu |-> [n \in CpuSlots |-> ZeroCpu], sound |-> [n \in SoundSlots |-> ZeroSound]]

\* The first index a for loop from 0 upwards finds in S.
Lowest(S) == CHOOSE n \in S : \A m \in S : n <= m

machine_add_cpu_topmost(machine, tag, type, cpuclock) ==
    LET free == {n \in CpuSlots : machine.cpu[n].cpu_type = 0}
    IN  IF free # {}
        THEN LET cpunum == CHOOSE n \in free : \A m \in free : n >= m
             IN  [machine |-> [machine EXCEPT !.cpu[cpunum] =
                                  [tag |-> tag, cpu_type |-> type, cpu_clock |-> cpuclock]],
                  slot |-> {cpunum}, logerror |-> ""]
        ELSE [machine |-> machine, slot |-> {}, logerror |-> "Out of CPU's!"]

machine_add_cpu(machine, tag, type, cpuclock) ==
    LET free == {n \in CpuSlots : machine.cpu[n].cpu_type = 0}
    IN  IF free # {}
        THEN LET cpunum == Lowest(free)
             IN  [machine |-> [machine EXCEPT !.cpu[cpunum] =
                                  [tag |-> tag, cpu_type |-> type, cpu_clock |-> cpuclock]],
                  slot |-> {cpunum}, logerror |-> ""]
        ELSE [machine |-> machine, slot |-> {}, logerror |-> "Out of CPU's!"]

machine_find_cpu(machine, tag) ==
    LET found == {n \in CpuSlots : machine.cpu[n].tag # "NULL" /\ machine.cpu[n].tag = tag}
    IN  IF found # {}
        THEN [machine |-> machine, slot |-> {Lowest(found)}, logerror |-> ""]
        ELSE [machine |-> machine, slot |-> {}, logerror |-> "Can't find CPU"]

machine_remove_cpu_unshifted(machine, tag) ==
    LET found == {n \in CpuSlots : machine.cpu[n].tag # "NULL" /\ machine.cpu[n].tag = tag}
    IN  IF found # {}
        THEN LET cpunum == Lowest(found)
             IN  [machine |-> [machine EXCEPT !.cpu[cpunum] = ZeroCpu],
                  slot |-> {cpunum}, logerror |-> ""]
        ELSE [machine |-> machine, slot |-> {}, logerror |-> "Can't find CPU"]

machine_remove_cpu(machine, tag) ==
    LET found == {n \in CpuSlots : machine.cpu[n].tag # "NULL" /\ machine.cpu[n].tag = tag}
    IN  IF found # {}
        THEN LET cpunum == Lowest(found)
                 memmove == [n \in CpuSlots |->
                                IF n >= cpunum /\ n < MaxCpu - 1 THEN machine.cpu[n + 1]
                                ELSE machine.cpu[n]]
                 memset == [memmove EXCEPT ![MaxCpu - 1] = ZeroCpu]
             IN  [machine |-> [machine EXCEPT !.cpu = memset],
                  slot |-> {cpunum}, logerror |-> ""]
        ELSE [machine |-> machine, slot |-> {}, logerror |-> "Can't find CPU"]

machine_add_sound(machine, tag, type, sndintf) ==
    LET free == {n \in SoundSlots : machine.sound[n].sound_type = 0}
    IN  IF free # {}
        THEN LET soundnum == Lowest(free)
             IN  [machine |-> [machine EXCEPT !.sound[soundnum] =
                                  [tag |-> tag, sound_type |-> type,
                                   sound_interface |-> sndintf]],
                  slot |-> {soundnum}, logerror |-> ""]
        ELSE [machine |-> machine, slot |-> {}, logerror |-> "Out of sounds!"]

machine_find_sound(machine, tag) ==
    LET found == {n \in SoundSlots :
                     machine.sound[n].tag # "NULL" /\ machine.sound[n].tag = tag}
    IN  IF found # {}
        THEN [machine |-> machine, slot |-> {Lowest(found)}, logerror |-> ""]
        ELSE [machine |-> machine, slot |-> {}, logerror |-> "Can't find sound"]

machine_remove_sound_unshifted(machine, tag) ==
    LET found == {n \in SoundSlots :
                     machine.sound[n].tag # "NULL" /\ machine.sound[n].tag = tag}
    IN  IF found # {}
        THEN LET soundnum == Lowest(found)
             IN  [machine |-> [machine EXCEPT !.sound[soundnum] = ZeroSound],
                  slot |-> {soundnum}, logerror |-> ""]
        ELSE [machine |-> machine, slot |-> {}, logerror |-> "Can't find sound"]

machine_remove_sound(machine, tag) ==
    LET found == {n \in SoundSlots :
                     machine.sound[n].tag # "NULL" /\ machine.sound[n].tag = tag}
    IN  IF found # {}
        THEN LET soundnum == Lowest(found)
                 memmove == [n \in SoundSlots |->
                                IF n >= soundnum /\ n < MaxSound - 1
                                THEN machine.sound[n + 1]
                                ELSE machine.sound[n]]
                 memset == [memmove EXCEPT ![MaxSound - 1] = ZeroSound]
             IN  [machine |-> [machine EXCEPT !.sound = memset],
                  slot |-> {soundnum}, logerror |-> ""]
        ELSE [machine |-> machine, slot |-> {}, logerror |-> "Can't find sound"]

\* No table function has been called.
NoCall == [f |-> "none", tag |-> "NULL", type |-> 0, param |-> 0, slot |-> {},
           logerror |-> ""]

\* The tables before the first expansion: static storage is zeroed.
RegistryAtRest == internal_drv = ZeroDriver /\ reg = NoCall
(***************************************************************************)
(* The disk-image adapter.  A mode is the sequence of its characters; the  *)
(* file layer is represented by the set of game names under which the      *)
(* image can be read (exists) and by whether the area of differencing      *)
(* files can be written (diff).  A handle is the open that produced it;    *)
(* the empty sequence is NULL.                                             *)
(***************************************************************************)
Modes == {<<"r">>, <<"r", "b">>, <<"r", "+">>, <<"r", "b", "+">>, <<"r", "+", "b">>,
          <<"w">>, <<"w", "b">>, << >>}

mame_fopen(gamename, filetype, openforwrite) ==
    [gamename |-> gamename, filetype |-> filetype, openforwrite |-> openforwrite]

\* strchr(mode, c) # NULL
strchr(mode, c) == \E n \in DOMAIN mode : mode[n] = c

\* The loop of mame_chd_open from driver d on, opens being the opens made so far.
RECURSIVE chd_open_chain(_, _, _)
chd_open_chain(d, exists, opens) ==
    IF d = 0
    THEN [opens |-> opens, ret |-> << >>]
    ELSE LET file == mame_fopen(drivers[d].name, "FILETYPE_IMAGE", 0)
         IN  IF drivers[d].name \in exists
             THEN [opens |-> Append(opens, file), ret |-> <<file>>]
             ELSE chd_open_chain(drivers[d].clone_of, exists, Append(opens, file))

mame_chd_open_anyread(s, mode, exists, diff) ==
    IF Len(mode) > 0 /\ mode[1] = "r"
    THEN chd_open_chain(s.Machine.gamedrv, exists, << >>)
    ELSE LET file == mame_fopen("NULL", "FILETYPE_IMAGE_DIFF", 1)
         IN  [opens |-> <<file>>, ret |-> IF diff THEN <<file>> ELSE << >>]

mame_chd_open(s, mode, exists, diff) ==
    IF Len(mode) > 0 /\ mode[1] = "r" /\ ~strchr(mode, "+")
    THEN chd_open_chain(s.Machine.gamedrv, exists, << >>)
    ELSE LET file == mame_fopen("NULL", "FILETYPE_IMAGE_DIFF", 1)
         IN  [opens |-> <<file>>, ret |-> IF diff THEN <<file>> ELSE << >>]

\* No disk image has been opened.
StorageAtRest ==
    chd = [mode |-> << >>, exists |-> {}, diff |-> FALSE, opens |-> << >>, ret |-> << >>]
(***************************************************************************)
(* The layout arithmetic of decode_graphics.  A field of a layout is       *)
(* either a literal or a fraction of the region's length in bits plus an   *)
(* offset; the macros that tell the two apart are the accessors of a       *)
(* tagged value.  Division is C's, which truncates towards zero.           *)
(***************************************************************************)
Lit(v) == [frac |-> FALSE, num |-> 0, den |-> 0, value |-> v]
Frac(n, d, o) == [frac |-> TRUE, num |-> n, den |-> d, value |-> o]
IS_FRAC(v) == v.frac
FRAC_NUM(v) == v.num
FRAC_DEN(v) == v.den
FRAC_OFFSET(v) == v.value
Literal(v) == v.value
GFX_RAW == 305419896

\* a / b in C, for b > 0
Quotient(a, b) == IF a >= 0 THEN a \div b ELSE 0 - ((0 - a) \div b)

decode_graphics_total_late(gl, region_length) ==
    IF IS_FRAC(gl.total)
    THEN Quotient(Quotient(region_length * FRAC_NUM(gl.total), gl.charincrement),
                  FRAC_DEN(gl.total))
    ELSE Literal(gl.total)

\* The effective total of a layout over a region of region_length bits.
decode_graphics_total(gl, region_length) ==
    IF IS_FRAC(gl.total)
    THEN Quotient(Quotient(region_length, gl.charincrement) * FRAC_NUM(gl.total),
                  FRAC_DEN(gl.total))
    ELSE Literal(gl.total)

\* A plane, X or Y offset over a region of region_length bits.
decode_graphics_offset(value, region_length) ==
    IF IS_FRAC(value)
    THEN FRAC_OFFSET(value) + Quotient(region_length * FRAC_NUM(value), FRAC_DEN(value))
    ELSE Literal(value)

RECURSIVE decode_graphics_raw_inclusive(_, _, _, _)
decode_graphics_raw_inclusive(glcopy, base, end, trail) ==
    LET total == trail[Len(trail)]
    IN  IF total > 0
        THEN LET elementbase == base + Quotient((total - 1) * glcopy.charincrement, 8)
                 lastpixelbase == elementbase
                                  + Quotient(glcopy.height * glcopy.yoffset[0], 8) - 1
             IN  IF lastpixelbase <= end
                 THEN trail
                 ELSE decode_graphics_raw_inclusive(glcopy, base, end,
                                                    Append(trail, total - 1))
        ELSE trail

\* The truncation loop of the raw mode; trail lists the values glcopy.total takes.
RECURSIVE decode_graphics_raw(_, _, _, _)
decode_graphics_raw(glcopy, base, end, trail) ==
    LET total == trail[Len(trail)]
    IN  IF total > 0
        THEN LET elementbase == base + Quotient((total - 1) * glcopy.charincrement, 8)
                 lastpixelbase == elementbase
                                  + Quotient(glcopy.height * glcopy.yoffset[0], 8) - 1
             IN  IF lastpixelbase < end
                 THEN trail
                 ELSE decode_graphics_raw(glcopy, base, end, Append(trail, total - 1))
        ELSE trail

\* The layout copy handed to decodegfx for one element, over a region of length bytes.
decode_graphics_layout(info, length) ==
    LET region_length == 8 * length
        gl == info.gfxlayout
        copy == [height |-> gl.height,
                 charincrement |-> gl.charincrement,
                 total |-> decode_graphics_total(gl, region_length),
                 planeoffset |-> [j \in DOMAIN gl.planeoffset |->
                                     decode_graphics_offset(gl.planeoffset[j], region_length)],
                 xoffset |-> [j \in DOMAIN gl.xoffset |->
                                 decode_graphics_offset(gl.xoffset[j], region_length)],
                 yoffset |-> [j \in DOMAIN gl.yoffset |->
                                 decode_graphics_offset(gl.yoffset[j], region_length)]]
        trail == IF copy.planeoffset[0] = GFX_RAW
                 THEN decode_graphics_raw(copy, info.start, Quotient(region_length, 8),
                                          <<copy.total>>)
                 ELSE <<copy.total>>
    IN  [glcopy |-> [copy EXCEPT !.total = trail[Len(trail)]], trail |-> trail]

\* No element is being decoded.
DecoderAtRest ==
    gfx = [at |-> "none", info |-> << >>, length |-> 0, glcopy |-> << >>, trail |-> << >>]

(***************************************************************************)
(* The display parameters of vh_open.  The video attributes of a driver    *)
(* are the set of the flags that are set in them.                          *)
(***************************************************************************)
\* compute_aspect_ratio(drv, &aspect_x, &aspect_y); aspect is what the two integers hold
\* when the function is entered.
compute_aspect_ratio(d, aspect) ==
    IF d.aspect_x # 0 /\ d.aspect_y # 0
    THEN [x |-> d.aspect_x, y |-> d.aspect_y]
    ELSE IF "VIDEO_DUAL_MONITOR" \notin d.video_attributes
         THEN [x |-> 4,
               y |-> IF "VIDEO_DUAL_MONITOR" \in d.video_attributes THEN 6 ELSE 3]
         ELSE aspect

\* vh_open is not creating a display.
DisplayAtRest ==
    params = [at |-> "none", drv |-> << >>, aspect |-> [x |-> 0, y |-> 0]]

(***************************************************************************)
(* The state machine                                                       *)
(***************************************************************************)
InitProgram ==
    /\ bailing = 0
    /\ game_loaded = 0
    /\ settingsloaded = 0
    /\ gamedrv = 0
    /\ Machine = [gamedrv |-> 0, drv |-> 0, color_depth |-> 0,
                  input_ports |-> "null", input_ports_default |-> "null",
                  memory_region |-> [r \in Regions |-> "null"],
                  gfx |-> [i \in 0..(MaxGfx - 1) |-> "null"],
                  uifont |-> "null", debugger_font |-> "null", scrbitmap |-> "null",
                  visible_area |-> Rect(0, 0, 0, 0),
                  absolute_visible_area |-> Rect(0, 0, 0, 0)]
    /\ options \in OptionSets
    /\ pause_action = "null"
    /\ visible_area_changed = 0
    /\ held = [r \in Resources |-> 0]
    /\ bad = [r \in Resources |-> 0]
    /\ tracked = << >>
    /\ calls = << >>
    /\ printed = << >>
    /\ recomputes = 0
    /\ failed_at = "none"
    /\ running = FALSE
    /\ rv = 0
    /\ op = "init"
    /\ arg = Rect(0, 0, 0, 0)
    /\ sessions = 0
    /\ skip = 0
    /\ RenderAtRest
    /\ RegistryAtRest
    /\ StorageAtRest

Init == InitProgram /\ DecoderAtRest /\ DisplayAtRest

\* The per-session logs start afresh with each run_game.
NewRun(s) == [s EXCEPT !.calls = << >>, !.printed = << >>, !.recomputes = 0,
                       !.failed_at = "none"]

\* The front end starts a session; it does so only when no session is live.
RunGame ==
    /\ sessions < MaxSessions
    /\ game_loaded = 0
    /\ \E game \in Games, in \in Inputs : Commit(run_game(NewRun(St), game, in))
    /\ op' = "run_game"
    /\ sessions' = sessions + 1
    /\ UNCHANGED <<arg, render, registry, storage, decoder>>

\* The user acknowledges the copyright or the warnings screen.
Acknowledge ==
    /\ game_loaded = 1
    /\ pause_action \in {"pause_action_showcopyright", "pause_action_showgamewarnings"}
    /\ Commit(acknowledge(St))
    /\ op' = "acknowledge"
    /\ UNCHANGED <<arg, sessions, render, registry, storage, decoder>>

\* The front end runs the pending pause action.
PauseActionStartEmulator ==
    /\ game_loaded = 1
    /\ pause_action = "pause_action_start_emulator"
    /\ \E nvram_file \in BOOLEAN : Commit(pause_action_start_emulator(St, nvram_file))
    /\ op' = "pause_action_start_emulator"
    /\ UNCHANGED <<arg, sessions, render, registry, storage, decoder>>

\* The front end ends the session (at any time, also with no session live).
MameDone ==
    /\ \E nvram_file \in BOOLEAN : Commit(mame_done(St, nvram_file))
    /\ op' = "mame_done"
    /\ UNCHANGED <<arg, sessions, render, registry, storage, decoder>>

\* The running driver changes the visible area.
SetVisibleArea ==
    /\ game_loaded = 1
    /\ running
    /\ recomputes < MaxRecompute
    /\ \E b \in Areas : Commit(set_visible_area(St, b)) /\ arg' = b
    /\ op' = "set_visible_area"
    /\ UNCHANGED <<sessions, render, registry, storage, decoder>>

\* The first session of the process, for the specification of the video state.
RunGameFirst ==
    /\ sessions = 0
    /\ game_loaded = 0
    /\ \E game \in Games, in \in Inputs : Commit(run_game(NewRun(St), game, in))
    /\ op' = "run_game"
    /\ sessions' = sessions + 1
    /\ UNCHANGED <<arg, render, registry, storage, decoder>>

Next == RunGame \/ Acknowledge \/ PauseActionStartEmulator \/ MameDone

\* Sessions following one another: the lifecycle.
Spec == Init /\ [][Next]_vars

\* A front end that calls run_game whenever it likes, also while a session is live.
RunGameAnytime ==
    /\ sessions < MaxSessions
    /\ \E game \in Games, in \in Inputs : Commit(run_game(NewRun(St), game, in))
    /\ op' = "run_game"
    /\ sessions' = sessions + 1
    /\ UNCHANGED <<arg, render, registry, storage, decoder>>

NextSessions == RunGameAnytime \/ Acknowledge \/ PauseActionStartEmulator \/ MameDone

\* Any sequence of run_game and mame_done calls.
SpecSessions == Init /\ [][NextSessions]_vars

NextVideo == RunGameFirst \/ Acknowledge \/ PauseActionStartEmulator \/ SetVisibleArea
             \/ MameDone

\* One session whose driver changes the visible area while it runs.
SpecVideo == Init /\ [][NextVideo]_vars

(***************************************************************************)
(* The frames of a running session.  The session is the one a successful   *)
(* run_game followed by pause_action_start_emulator leaves behind; the     *)
(* CPU scheduler, the driver and the user interface then call the          *)
(* scheduler's entry points in any order.                                  *)
(***************************************************************************)
\* The globals of mame.c when the process starts.
Static(o) ==
    [bailing |-> 0, game_loaded |-> 0, settingsloaded |-> 0, gamedrv |-> 0,
     Machine |-> [gamedrv |-> 0, drv |-> 0, color_depth |-> 0,
                  input_ports |-> "null", input_ports_default |-> "null",
                  memory_region |-> [r \in Regions |-> "null"],
                  gfx |-> [i \in 0..(MaxGfx - 1) |-> "null"],
                  uifont |-> "null", debugger_font |-> "null", scrbitmap |-> "null",
                  visible_area |-> Rect(0, 0, 0, 0),
                  absolute_visible_area |-> Rect(0, 0, 0, 0)],
     options |-> o, pause_action |-> "null", visible_area_changed |-> 0,
     held |-> [r \in Resources |-> 0], bad |-> [r \in Resources |-> 0],
     tracked |-> << >>, calls |-> << >>, printed |-> << >>, recomputes |-> 0,
     failed_at |-> "none", running |-> FALSE, rv |-> 0]

\* The session of game once cpu_run has been entered, nothing having failed and the
\* options skipping both screens.
Started(game) ==
    pause_action_start_emulator(
        run_game(NewRun(Static([cheat |-> 1, skip_disclaimer |-> 1, skip_warnings |-> 1])),
                 game, [fail |-> Step("none"), loaded |-> 1]),
        FALSE)

InitRender ==
    /\ \E game \in {1} : \E s \in {Started(game)} :
             /\ bailing = s.bailing
             /\ game_loaded = s.game_loaded
             /\ settingsloaded = s.settingsloaded
             /\ gamedrv = s.gamedrv
             /\ Machine = s.Machine
             /\ options = s.options
             /\ pause_action = s.pause_action
             /\ visible_area_changed = s.visible_area_changed
             /\ held = s.held
             /\ bad = s.bad
             /\ tracked = s.tracked
             /\ calls = s.calls
             /\ printed = s.printed
             /\ recomputes = s.recomputes
             /\ failed_at = s.failed_at
             /\ running = s.running
             /\ rv = s.rv
    /\ op = "pause_action_start_emulator"
    /\ arg = Rect(0, 0, 0, 0)
    /\ sessions = 1
    /\ skip \in {0, 1}
    /\ RenderAtRest
    /\ RegistryAtRest
    /\ StorageAtRest
    /\ DecoderAtRest
    /\ DisplayAtRest

Scanlines == (0 - 1)..MaxScanline
Rows == 0..MaxCoord

\* No force_partial_update was made by the entry point.
NoForce == [calls |-> 0, scanline |-> 0, skip |-> 0, drew |-> 0]

Callbacks(u) == Cardinality({i \in DOMAIN u : u[i].f = "video_update"})

\* The entry point made one force_partial_update(scanline), taking r0 to r1.
Forced(r0, r1, scanline) ==
    [calls |-> 1, scanline |-> scanline, skip |-> r0.skip,
     drew |-> Callbacks(r1.updates) - Callbacks(r0.updates)]

Highest(req, scanline) ==
    IF \E m \in req : m >= scanline THEN req ELSE {scanline}

\* The CPU scheduler starts a new frame.
ResetPartialUpdates ==
    /\ running
    /\ CommitRender([reset_partial_updates(Rs) EXCEPT !.updates = << >>])
    /\ fpu' = NoForce
    /\ requested' = {}
    /\ owed' = (full_refresh_pending # 0 /\ osd_skip_this_frame(Rs) = 0)
    /\ steady' = TRUE
    /\ op' = "reset_partial_updates"
    /\ UNCHANGED <<lifecycle, skip, registry, storage, decoder>>

\* The driver asks for the screen to be brought up to date down to a scanline.
ForcePartialUpdate ==
    /\ running
    /\ \E scanline \in Scanlines, dirties \in BOOLEAN :
          LET r == force_partial_update(Rs, scanline, dirties)
          IN  /\ CommitRender(r)
              /\ fpu' = Forced(Rs, r, scanline)
              /\ requested' = Highest(requested, scanline)
    /\ op' = "force_partial_update"
    /\ UNCHANGED <<lifecycle, skip, owed, steady, registry, storage, decoder>>

DrawScreen ==
    /\ running
    /\ \E dirties \in BOOLEAN :
          LET r == draw_screen(Rs, dirties)
          IN  /\ CommitRender(r)
              /\ fpu' = Forced(Rs, r, Machine.visible_area.max_y)
              /\ requested' = Highest(requested, Machine.visible_area.max_y)
    /\ op' = "draw_screen"
    /\ UNCHANGED <<lifecycle, skip, owed, steady, registry, storage, decoder>>

\* The end of a frame: the screen is drawn unless the frame is skipped, and unless the
\* user quits the display is updated, after which the platform has decided whether the
\* next frame is skipped.
UpdateScreen ==
    /\ running
    /\ \E dirties \in BOOLEAN, quit \in BOOLEAN, decision \in {0, 1} :
          LET drawn == osd_skip_this_frame(Rs) = 0
              r == IF drawn THEN draw_screen(Rs, dirties) ELSE Rs
              req == IF drawn THEN Highest(requested, Machine.visible_area.max_y)
                     ELSE requested
          IN  /\ CommitRender(r)
              /\ fpu' = IF drawn THEN Forced(Rs, r, Machine.visible_area.max_y) ELSE NoForce
              /\ IF quit
                 THEN /\ Commit(St)
                      /\ skip' = skip
                      /\ requested' = req
                      /\ owed' = owed
                 ELSE /\ Commit(update_video_and_audio(St))
                      /\ skip' = decision
                      /\ requested' = IF decision = skip THEN req ELSE {}
                      /\ owed' = (owed /\ decision = 0)
    /\ op' = "updatescreen"
    /\ UNCHANGED <<arg, sessions, registry, storage, decoder>>

ScheduleFullRefresh ==
    /\ running
    /\ CommitRender(schedule_full_refresh(Rs))
    /\ fpu' = NoForce
    /\ op' = "schedule_full_refresh"
    /\ UNCHANGED <<lifecycle, skip, requested, owed, steady, registry, storage, decoder>>

\* The user interface pauses or resumes the emulation.
MamePause ==
    /\ running
    /\ \E pause \in {0, 1} : CommitRender(mame_pause(Rs, pause))
    /\ fpu' = NoForce
    /\ op' = "mame_pause"
    /\ UNCHANGED <<lifecycle, skip, requested, owed, steady, registry, storage, decoder>>

\* The running driver changes the rows of the visible area.
SetVisibleRows ==
    /\ running
    /\ recomputes < MaxRowChange
    /\ \E min_y \in Rows, max_y \in Rows :
          LET b == Rect(Machine.visible_area.min_x, Machine.visible_area.max_x, min_y, max_y)
          IN  min_y <= max_y /\ Commit(set_visible_area(St, b)) /\ arg' = b
    /\ fpu' = NoForce
    /\ op' = "set_visible_area"
    /\ UNCHANGED <<sessions, full_refresh_pending, last_partial_scanline, performance,
                   gbPriorityBitmapIsDirty, skip, updates, requested, owed,
                   registry, storage, decoder>>

NextRender == ResetPartialUpdates \/ ForcePartialUpdate \/ DrawScreen \/ UpdateScreen
              \/ ScheduleFullRefresh \/ MamePause \/ SetVisibleRows

SpecRender == InitRender /\ [][NextRender]_vars

(***************************************************************************)
(* The expansion of a machine driver: the table is zeroed, then the        *)
(* driver's constructor adds, finds and removes CPUs and sound chips.      *)
(***************************************************************************)
\* What constructors declare: a tag (or none), a type and a clock or an interface.
\* Type 0 is the dummy type; two declarations share a tag.
CpuDecls == {<<"NULL", 1, 100>>, <<"main", 2, 200>>, <<"main", 1, 400>>,
             <<"dummy", 0, 500>>}
SoundDecls == {<<"NULL", 1, 10>>, <<"ym", 2, 20>>, <<"ym", 1, 30>>}
CpuTags == {"main", "dummy", "absent"}
SoundTags == {"ym", "absent"}

Called(f, tag, type, param, res) ==
    [f |-> f, tag |-> tag, type |-> type, param |-> param, slot |-> res.slot,
     logerror |-> res.logerror]

ExpandMachineDriver ==
    /\ internal_drv' = ZeroDriver
    /\ reg' = [NoCall EXCEPT !.f = "expand_machine_driver"]
    /\ op' = "expand_machine_driver"
    /\ UNCHANGED <<lifecycle, render, steady, storage, decoder>>

MachineAddCpu ==
    /\ \E d \in CpuDecls :
          LET res == machine_add_cpu(internal_drv, d[1], d[2], d[3])
          IN  /\ internal_drv' = res.machine
              /\ reg' = Called("machine_add_cpu", d[1], d[2], d[3], res)
    /\ op' = "machine_add_cpu"
    /\ UNCHANGED <<lifecycle, render, steady, storage, decoder>>

MachineFindCpu ==
    /\ \E tag \in CpuTags :
          LET res == machine_find_cpu(internal_drv, tag)
          IN  /\ internal_drv' = res.machine
              /\ reg' = Called("machine_find_cpu", tag, 0, 0, res)
    /\ op' = "machine_find_cpu"
    /\ UNCHANGED <<lifecycle, render, steady, storage, decoder>>

MachineRemoveCpu ==
    /\ \E tag \in CpuTags :
          LET res == machine_remove_cpu(internal_drv, tag)
          IN  /\ internal_drv' = res.machine
              /\ reg' = Called("machine_remove_cpu", tag, 0, 0, res)
    /\ op' = "machine_remove_cpu"
    /\ UNCHANGED <<lifecycle, render, steady, storage, decoder>>

MachineAddSound ==
    /\ \E d \in SoundDecls :
          LET res == machine_add_sound(internal_drv, d[1], d[2], d[3])
          IN  /\ internal_drv' = res.machine
              /\ reg' = Called("machine_add_sound", d[1], d[2], d[3], res)
    /\ op' = "machine_add_sound"
    /\ UNCHANGED <<lifecycle, render, steady, storage, decoder>>

MachineFindSound ==
    /\ \E tag \in SoundTags :
          LET res == machine_find_sound(internal_drv, tag)
          IN  /\ internal_drv' = res.machine
              /\ reg' = Called("machine_find_sound", tag, 0, 0, res)
    /\ op' = "machine_find_sound"
    /\ UNCHANGED <<lifecycle, render, steady, storage, decoder>>

MachineRemoveSound ==
    /\ \E tag \in SoundTags :
          LET res == machine_remove_sound(internal_drv, tag)
          IN  /\ internal_drv' = res.machine
              /\ reg' = Called("machine_remove_sound", tag, 0, 0, res)
    /\ op' = "machine_remove_sound"
    /\ UNCHANGED <<lifecycle, render, steady, storage, decoder>>

NextRegistry == ExpandMachineDriver \/ MachineAddCpu \/ MachineFindCpu \/ MachineRemoveCpu
                \/ MachineAddSound \/ MachineFindSound \/ MachineRemoveSound

\* The tables are expanded before anything else of a session exists; the options play
\* no part in it.
InitStatic == Init /\ options = [cheat |-> 1, skip_disclaimer |-> 1, skip_warnings |-> 1]

SpecRegistry == InitStatic /\ [][NextRegistry]_vars

(***************************************************************************)
(* The display creation of vh_open.                                        *)
(***************************************************************************)
\* What the two integers of the local params may hold before they are written: params is
\* not initialised.
Uninitialized == {0 - 1, 0, 6}

VideoAttributes == SUBSET {"VIDEO_DUAL_MONITOR", "VIDEO_TYPE_VECTOR"}

\* vh_open has reached the computation of the display parameters.
InitDisplay ==
    /\ InitProgram
    /\ options = [cheat |-> 1, skip_disclaimer |-> 1, skip_warnings |-> 1]
    /\ DecoderAtRest
    /\ \E ax \in 0..MaxAspect, ay \in 0..MaxAspect, va \in VideoAttributes,
          x \in Uninitialized, y \in Uninitialized :
          params = [at |-> "vh_open",
                    drv |-> [aspect_x |-> ax, aspect_y |-> ay, video_attributes |-> va],
                    aspect |-> [x |-> x, y |-> y]]

\* vh_open fills in the aspect ratio and creates the display with it.
ArtworkCreateDisplay ==
    /\ params.at = "vh_open"
    /\ params' = [params EXCEPT !.at = "artwork_create_display",
                                !.aspect = compute_aspect_ratio(params.drv, params.aspect)]
    /\ op' = "artwork_create_display"
    /\ UNCHANGED <<lifecycle, render, steady, registry, storage, gfx>>

NextDisplay == ArtworkCreateDisplay

SpecDisplay == InitDisplay /\ [][NextDisplay]_vars

(***************************************************************************)
(* The disk images opened for the running game.                            *)
(***************************************************************************)
InitStorage ==
    /\ \E game \in Games : \E s \in {Started(game)} :
             /\ bailing = s.bailing
             /\ game_loaded = s.game_loaded
             /\ settingsloaded = s.settingsloaded
             /\ gamedrv = s.gamedrv
             /\ Machine = s.Machine
             /\ options = s.options
             /\ pause_action = s.pause_action
             /\ visible_area_changed = s.visible_area_changed
             /\ held = s.held
             /\ bad = s.bad
             /\ tracked = s.tracked
             /\ calls = s.calls
             /\ printed = s.printed
             /\ recomputes = s.recomputes
             /\ failed_at = s.failed_at
             /\ running = s.running
             /\ rv = s.rv
    /\ op = "pause_action_start_emulator"
    /\ arg = Rect(0, 0, 0, 0)
    /\ sessions = 1
    /\ skip = 0
    /\ RenderAtRest
    /\ RegistryAtRest
    /\ StorageAtRest
    /\ DecoderAtRest
    /\ DisplayAtRest

\* The hard disk layer opens an image, the file layer answering as exists and diff say.
MameChdOpen ==
    /\ \E mode \in Modes, exists \in SUBSET {drivers[g].name : g \in Games},
          diff \in BOOLEAN :
          LET res == mame_chd_open(St, mode, exists, diff)
          IN  chd' = [mode |-> mode, exists |-> exists, diff |-> diff,
                      opens |-> res.opens, ret |-> res.ret]
    /\ op' = "mame_chd_open"
    /\ UNCHANGED <<lifecycle, render, steady, registry, decoder>>

NextStorage == MameChdOpen

SpecStorage == InitStorage /\ [][NextStorage]_vars

(***************************************************************************)
(* The elements decode_graphics resolves: a layout, the offset of the      *)
(* element in its region and the region's length in bytes.                 *)
(***************************************************************************)
Pair(a, b) == [j \in 0..1 |-> IF j = 0 THEN a ELSE b]

Totals == {Lit(n) : n \in 0..MaxTotal}
          \cup {Frac(1, 1, 0), Frac(1, 2, 0), Frac(1, 4, 0), Frac(3, 4, 0), Frac(3, 2, 0)}

GfxLayouts ==
    [height : {1, 2},
     total : Totals,
     planeoffset : {Pair(Lit(0), Lit(4)), Pair(Lit(GFX_RAW), Lit(0)),
                    Pair(Frac(1, 2, 0), Frac(1, 3, 4))},
     xoffset : {Pair(Lit(0), Lit(1)), Pair(Frac(1, 2, 0), Frac(1, 2, 1))},
     yoffset : {Pair(Lit(8), Lit(16)), Pair(Lit(0), Lit(8)),
                Pair(Frac(1, 4, 0), Frac(1, 4, 8)), Pair(Frac(1, 3, 2), Lit(0))},
     charincrement : {8, 12, 16}]

GfxDecodeInfos == [start : {0, 1}, gfxlayout : GfxLayouts]

\* decode_graphics has reached an element of the driver's list.
InitDecoder ==
    /\ InitProgram
    /\ options = [cheat |-> 1, skip_disclaimer |-> 1, skip_warnings |-> 1]
    /\ \E info \in GfxDecodeInfos, length \in 0..MaxRegion :
          gfx = [at |-> "element", info |-> info, length |-> length,
                 glcopy |-> << >>, trail |-> << >>]
    /\ DisplayAtRest

\* decode_graphics resolves the layout of the element.
DecodeGraphics ==
    /\ gfx.at = "element"
    /\ LET res == decode_graphics_layout(gfx.info, gfx.length)
       IN  gfx' = [gfx EXCEPT !.at = "decodegfx", !.glcopy = res.glcopy,
                              !.trail = res.trail]
    /\ op' = "decode_graphics"
    /\ UNCHANGED <<lifecycle, render, steady, registry, storage, params>>

NextDecoder == DecodeGraphics

SpecDecoder == InitDecoder /\ [][NextDecoder]_vars

(***************************************************************************)
(* Reading the call log                                                    *)
(***************************************************************************)
Positions(f) == {i \in DOMAIN calls : calls[i] = f}
Has(f) == Positions(f) # {}
Count(f) == Cardinality(Positions(f))
First(f) == IF Has(f) THEN CHOOSE i \in Positions(f) : \A j \in Positions(f) : i <= j
            ELSE 0
Last(f) == IF Has(f) THEN CHOOSE i \in Positions(f) : \A j \in Positions(f) : j <= i
           ELSE 0
\* every call of a precedes every call of b
Precedes(a, b) == \A i \in Positions(a), j \in Positions(b) : i < j

InitMachineSteps == {"uistring_init", "code_init", "input_port_allocate(input_ports)",
                     "input_port_allocate(input_ports_default)", "rom_load", "memory_init"}
VhOpenSteps == {"palette_start", "decodegfx", "artwork_create_display",
                "auto_bitmap_alloc_depth", "builduifont", "palette_init"}

\* A run_game has just returned.
Returned == op = "run_game"
\* No session is live and at least one was started.
SessionOver == sessions > 0 /\ game_loaded = 0
\* init_machine returned success in the latest run.
InitMachineSucceeded == sessions > 0 /\ failed_at \notin ({"osd_init"} \cup InitMachineSteps)

(***************************************************************************)
(* C1: at the end of every run (a failed start, or a started session ended  *)
(* by mame_done) every resource acquired during the run has been released  *)
(* exactly once: nothing is still held, nothing was released without being *)
(* held.                                                                   *)
(***************************************************************************)
C1Resources == {"osd", "tracking", "uistring", "code", "input_ports", "input_ports_default",
                "regions", "cpu", "memory", "palette", "gfx", "display", "uifont",
                "tilemap", "video", "sound"}

C1_AllReleasedExactlyOnce ==
    SessionOver => \A r \in C1Resources : held[r] = 0 /\ bad[r] = 0

(***************************************************************************)
(* C2: a failed run_game has printed exactly one diagnostic, the one of    *)
(* the first failure, and has set the bailing latch; a successful run has  *)
(* printed none.                                                           *)
(***************************************************************************)
FirstMessage(step) ==
    CASE step = "osd_init" -> "Unable to initialize system"
      [] step \in InitMachineSteps -> "Unable to initialize machine emulation"
      [] step = "decodegfx" -> "Out of memory decoding gfx"
      [] step = "sound_start" -> "Unable to start audio emulation"
      [] OTHER -> "Unable to start video emulation"

C2_OneDiagnostic ==
    sessions > 0 =>
        /\ rv = 1 => /\ failed_at # "none"
                     /\ printed = <<FirstMessage(failed_at)>>
                     /\ bailing = 1
        /\ rv = 0 => printed = << >> /\ bailing = 0 /\ failed_at = "none"

\* A run in which bail_and_print was called three times after the first message.
C2_Witness ==
    /\ Returned /\ rv = 1 /\ failed_at = "decodegfx"
    /\ printed = <<"Out of memory decoding gfx">>
    /\ Has("shutdown_machine")

(***************************************************************************)
(* C3: run_game enters options, osd_init, init_machine, run_machine in     *)
(* this order, each only if every earlier stage succeeded, and returns 0   *)
(* exactly when all of them succeeded and 1 otherwise.                     *)
(***************************************************************************)
C3_StageOrder ==
    Returned =>
        /\ rv \in {0, 1}
        /\ rv = 0 <=> failed_at = "none"
        /\ Count("init_game_options") = 1 /\ Count("osd_init") = 1
        /\ First("init_game_options") < First("osd_init")
        /\ Count("init_machine") <= 1 /\ Count("run_machine") <= 1
        /\ Has("init_machine") <=> failed_at # "osd_init"
        /\ Has("init_machine") => First("osd_init") < First("init_machine")
        /\ Has("run_machine") <=> failed_at \notin ({"osd_init"} \cup InitMachineSteps)
        /\ Has("run_machine") => First("init_machine") < First("run_machine")
        /\ failed_at = "osd_init" =>
               ~Has("shutdown_machine") /\ ~Has("osd_exit") /\ ~Has("vh_open")
        /\ failed_at \in InitMachineSteps => ~Has("vh_open") /\ ~Has("shutdown_machine")
        /\ rv = 0 => Has("run_machine_core") /\ game_loaded = 1

C3_Witness ==
    Returned /\ rv = 1 /\ failed_at = "memory_init" /\ Has("osd_exit")

(***************************************************************************)
(* C4: when a sub-step of init_machine fails, init_machine undoes exactly  *)
(* what it acquired before that step, in reverse order (free the default   *)
(* ports, free the live ports, close the input subsystem), and afterwards  *)
(* nothing that init_machine acquired is still allocated.                  *)
(***************************************************************************)
InitMachineResources == {"uistring", "code", "input_ports", "input_ports_default",
                         "regions", "cpu", "memory"}

\* The calls init_machine made after the failing one.
Rollback == SubSeq(calls, Last(failed_at) + 1, First("end_resource_tracking") - 1)

ExpectedRollback(step) ==
    CASE step \in {"uistring_init", "code_init"} -> << >>
      [] step = "input_port_allocate(input_ports)" -> <<"code_close">>
      [] step = "input_port_allocate(input_ports_default)" ->
             <<"input_port_free(input_ports)", "code_close">>
      [] OTHER -> <<"input_port_free(input_ports_default)",
                    "input_port_free(input_ports)", "code_close">>

C4_InitMachineRollback ==
    (Returned /\ failed_at \in InitMachineSteps) =>
        /\ rv = 1
        /\ Rollback = ExpectedRollback(failed_at)
        /\ \A r \in InitMachineResources : held[r] = 0 /\ bad[r] = 0

(***************************************************************************)
(* C5: when a step of vh_open fails, exactly the completed steps are       *)
(* undone, in reverse order of completion (UI font, display, decoded       *)
(* graphics), the display is closed only if it was created, vh_open        *)
(* returns failure and run_game goes on to shutdown_machine.               *)
(***************************************************************************)
DisplayCreated == failed_at \in {"auto_bitmap_alloc_depth", "builduifont", "palette_init"}

C5_VhOpenUnwind ==
    (Returned /\ failed_at \in VhOpenSteps) =>
        /\ rv = 1
        /\ Has("osd_close_display") <=> DisplayCreated
        /\ Has("freegfx(font)") <=> failed_at = "palette_init"
        /\ Precedes("freegfx(font)", "osd_close_display")
        /\ Precedes("osd_close_display", "freegfx(gfx)")
        /\ held["gfx"] = 0 /\ held["uifont"] = 0 /\ held["display"] = 0
        /\ Count("shutdown_machine") = 1
        /\ Last("vh_close") < First("shutdown_machine")

(***************************************************************************)
(* C6: a run in which init_machine succeeded executes shutdown_machine     *)
(* exactly once by the time the session is over (in run_game when          *)
(* run_machine fails, or in mame_done), never while the session is live;   *)
(* a run in which init_machine failed never executes it.                   *)
(***************************************************************************)
C6_ShutdownOnce ==
    /\ Count("shutdown_machine") <= 1
    /\ game_loaded = 1 => Count("shutdown_machine") = 0
    /\ SessionOver =>
           Count("shutdown_machine") = (IF InitMachineSucceeded THEN 1 ELSE 0)

\* A session ended while it was still waiting at the copyright screen.
C6_Witness ==
    /\ op = "mame_done" /\ SessionOver /\ Count("shutdown_machine") = 1
    /\ Has("showcopyright") /\ ~Has("cpu_run")

(***************************************************************************)
(* C7: shutdown_machine is the exact mirror of init_machine: every         *)
(* subsystem init_machine brought up is torn down, and one brought up      *)
(* later is torn down earlier.                                             *)
(***************************************************************************)
\* The teardown call of each subsystem, in the order init_machine brings them up.
Mirror ==
    <<"uistring_shutdown", "code_close">>
    \o (IF drivers[gamedrv].input_ports
        THEN <<"input_port_free(input_ports)", "input_port_free(input_ports_default)">>
        ELSE << >>)
    \o <<"chd_close_all">>
    \o (IF drivers[gamedrv].rom THEN <<"free_memory_region">> ELSE << >>)
    \o <<"cpu_exit", "memory_shutdown">>

C7_ShutdownMirrorsInit ==
    (sessions > 0 /\ Has("shutdown_machine")) =>
        /\ \A k \in DOMAIN Mirror : Last(Mirror[k]) > Last("shutdown_machine")
        /\ \A k, l \in DOMAIN Mirror : k < l => Last(Mirror[l]) < Last(Mirror[k])

(***************************************************************************)
(* C8: mame_done on a started session stops the engine, saves NVRAM, stops *)
(* the cheat subsystem, saves the input settings, stops audio, calls the   *)
(* driver's video-stop hook, closes tilemaps and video, shuts the machine  *)
(* down and leaves the OSD layer, in this order and each at most once; the *)
(* machine and platform teardown starts after vh_close has finished.       *)
(***************************************************************************)
TeardownOrder == <<"cpu_run_done", "nvram_handler(save)", "StopCheat",
                   "save_input_port_settings", "sound_stop", "video_stop",
                   "tilemap_close", "vh_close", "shutdown_machine", "osd_exit">>

MachineTeardownCalls == {"shutdown_machine", "memory_shutdown", "free_memory_region",
                         "chd_close_all", "cpu_exit", "input_port_free(input_ports)",
                         "input_port_free(input_ports_default)", "code_close",
                         "state_save_reset", "osd_exit", "end_resource_tracking"}

C8_TeardownOrder ==
    Has("mame_done") =>
        /\ \A k \in DOMAIN TeardownOrder :
               /\ Count(TeardownOrder[k]) <= 1
               /\ Has(TeardownOrder[k]) => First("mame_done") < First(TeardownOrder[k])
        /\ \A k, l \in DOMAIN TeardownOrder :
               k < l => Precedes(TeardownOrder[k], TeardownOrder[l])
        /\ \A f \in {"cpu_run_done", "save_input_port_settings", "sound_stop",
                     "tilemap_close", "vh_close", "shutdown_machine", "osd_exit"} :
               Count(f) = 1
        /\ Has("nvram_handler(save)") => drivers[gamedrv].nvram_handler
        /\ Has("video_stop") <=> drivers[gamedrv].video_stop
        /\ Has("StopCheat") <=> options.cheat # 0
        /\ \A i \in DOMAIN calls :
               (i > First("mame_done") /\ calls[i] \in MachineTeardownCalls)
                   => i > Last("osd_close_display")

C8_Witness ==
    /\ op = "mame_done" /\ Has("mame_done")
    /\ Has("nvram_handler(save)") /\ Has("StopCheat") /\ Has("video_stop")
    /\ Has("cpu_run")

(***************************************************************************)
(* C9: a session for a driver without input ports makes neither            *)
(* input_port_allocate call, and unless osd_init or another init_machine   *)
(* step fails, init_machine succeeds and run_game goes on to vh_open.      *)
(***************************************************************************)
C9_NoPortsStillStarts ==
    (sessions > 0 /\ ~drivers[gamedrv].input_ports) =>
        /\ ~Has("input_port_allocate(input_ports)")
        /\ ~Has("input_port_allocate(input_ports_default)")
        /\ failed_at \notin {"osd_init", "uistring_init", "code_init", "rom_load",
                             "memory_init"}
               => /\ Has("vh_open")
                  /\ \A i \in DOMAIN printed :
                         printed[i] # "Unable to initialize machine emulation"

C9_Witness ==
    /\ Returned /\ ~drivers[gamedrv].input_ports /\ rv = 0
    /\ Has("vh_open") /\ Has("memory_init")

(***************************************************************************)
(* C10: set_visible_area with the current bounds changes nothing and       *)
(* recomputes nothing; with other bounds it recomputes the scanline timing *)
(* exactly once, sets visible_area_changed and makes both the visible area *)
(* and the absolute visible area equal to the new bounds.                  *)
(***************************************************************************)
C10_SetVisibleArea ==
    [][op' = "set_visible_area" =>
         IF arg' = Machine.visible_area
         THEN UNCHANGED <<bailing, game_loaded, settingsloaded, gamedrv, Machine, options,
                          pause_action, visible_area_changed, recomputes>>
         ELSE /\ recomputes' = recomputes + 1
              /\ visible_area_changed' = 1
              /\ Machine'.visible_area = arg'
              /\ Machine'.absolute_visible_area = arg'
              /\ Machine' = [Machine EXCEPT !.visible_area = arg',
                                            !.absolute_visible_area = arg']
              /\ UNCHANGED <<bailing, game_loaded, settingsloaded, gamedrv, options,
                             pause_action>>]_vars

\* A call with new bounds has been made on top of an earlier change.
C10_Witness ==
    /\ op = "set_visible_area"
    /\ arg = Machine.visible_area /\ arg = Machine.absolute_visible_area
    /\ arg # drivers[gamedrv].default_visible_area
    /\ visible_area_changed = 1
    /\ recomputes = MaxRecompute

(***************************************************************************)
(* The partial-update scheduler                                            *)
(***************************************************************************)
\* The callbacks made since the latest reset_partial_updates, and the rows given to them.
Rendered == {i \in DOMAIN updates : updates[i].f = "video_update"}
RowsOf(i) == updates[i].clip[1].min_y .. updates[i].clip[1].max_y
RenderedRows == UNION {RowsOf(i) : i \in Rendered}

\* C11: between two reset_partial_updates calls last_partial_scanline never decreases,
\* whatever force_partial_update, draw_screen, schedule_full_refresh, set_visible_area and
\* the platform's frame-skip decisions do; only reset_partial_updates takes it back, to 0.
C11_LastScanlineMonotonic ==
    [][/\ op' # "reset_partial_updates" => last_partial_scanline' >= last_partial_scanline
       /\ last_partial_scanline' < last_partial_scanline
             => op' = "reset_partial_updates" /\ last_partial_scanline' = 0]_vars

\* A request below the scanline already reached has just been ignored, in a frame with
\* a refresh pending whose visible area the driver changed.
C11_Witness ==
    /\ op = "force_partial_update"
    /\ fpu.skip = 0
    /\ fpu.scanline + 1 < last_partial_scanline
    /\ last_partial_scanline = MaxScanline + 1
    /\ full_refresh_pending = 1
    /\ ~steady

\* C12: within one frame (no reset_partial_updates and no change of the frame-skip
\* decision in between), two force_partial_update calls in a row with the same scanline
\* invoke the callback at most once in total, and a call with a scanline strictly below
\* one requested before invokes no callback and leaves last_partial_scanline unchanged.
C12_RepeatedAndLowerRequests ==
    [][/\ (fpu.calls = 1 /\ fpu'.calls = 1 /\ fpu'.scanline = fpu.scanline)
             => fpu.drew + fpu'.drew <= 1
       /\ (fpu'.calls = 1 /\ \E m \in requested : fpu'.scanline < m)
             => /\ fpu'.drew = 0
                /\ Callbacks(updates') = Callbacks(updates)
                /\ last_partial_scanline' = last_partial_scanline]_vars

\* A request has just been repeated, or made below an earlier one, on a frame that is
\* not skipped: rows down to the requested scanline had been rendered, nothing was
\* rendered now.
C12_Witness ==
    /\ op = "force_partial_update"
    /\ fpu.skip = 0
    /\ fpu.drew = 0
    /\ fpu.scanline < last_partial_scanline
    /\ \E m \in requested : fpu.scanline <= m
    /\ \E i \in Rendered : fpu.scanline \in RowsOf(i)

\* The latest force_partial_update was made on a frame that is not skipped and carried
\* the highest scanline of the frame so far, the visible area being the one of the
\* latest reset_partial_updates.
FrameUpTo(N) ==
    /\ steady
    /\ fpu.calls = 1
    /\ fpu.skip = 0
    /\ fpu.scanline = N
    /\ last_partial_scanline = N + 1

Disjoint == \A i, j \in Rendered : i # j => RowsOf(i) \cap RowsOf(j) = {}

\* C13 as stated: on a non-skipped frame with a fixed visible area,
\* reset_partial_updates followed by force_partial_update calls with increasing
\* scanlines ending at N gives the callback pairwise non-overlapping ranges whose union
\* is [min(visible_area.min_y, 0), visible_area.max_y] intersected with [0, N].
C13_CoverageAsStated ==
    \A N \in Scanlines :
        FrameUpTo(N) =>
            LET lo == IF Machine.visible_area.min_y < 0 THEN Machine.visible_area.min_y
                      ELSE 0
            IN  /\ Disjoint
                /\ RenderedRows = (lo .. Machine.visible_area.max_y) \cap (0 .. N)

\* C13 amended: the ranges are pairwise non-overlapping and their union is
\* [max(visible_area.min_y, 0), visible_area.max_y] intersected with [0, N].
C13_Coverage ==
    \A N \in Scanlines :
        FrameUpTo(N) =>
            LET lo == IF Machine.visible_area.min_y > 0 THEN Machine.visible_area.min_y
                      ELSE 0
            IN  /\ Disjoint
                /\ RenderedRows = (lo .. Machine.visible_area.max_y) \cap (0 .. N)

\* A frame has been rendered down to its last scanline, of a visible area that starts
\* below row 0 of the bitmap.
C13_Witness ==
    /\ FrameUpTo(MaxScanline)
    /\ Machine.visible_area.min_y > 0
    /\ Rendered # {}

(***************************************************************************)
(* The CPU and sound tables                                                *)
(***************************************************************************)
FreeCpu == {n \in CpuSlots : internal_drv.cpu[n].cpu_type = 0}
FreeSound == {n \in SoundSlots : internal_drv.sound[n].sound_type = 0}
MatchCpu(tag) == {n \in CpuSlots : internal_drv.cpu[n].tag = tag}
MatchSound(tag) == {n \in SoundSlots : internal_drv.sound[n].tag = tag}

\* C14: machine_add_cpu / machine_add_sound on a table with a free slot stores the tag,
\* the type and the parameter in the free slot of lowest index, returns that slot and
\* changes no other slot; on a table without a free slot it returns NULL and leaves
\* every slot unchanged.
C14_AddStoresInLowestFreeSlot ==
    [][/\ op' = "machine_add_cpu" =>
            IF FreeCpu # {}
            THEN \E k \in FreeCpu :
                    /\ \A n \in FreeCpu : k <= n
                    /\ reg'.slot = {k}
                    /\ internal_drv'.cpu[k] =
                           [tag |-> reg'.tag, cpu_type |-> reg'.type, cpu_clock |-> reg'.param]
                    /\ \A n \in CpuSlots \ {k} : internal_drv'.cpu[n] = internal_drv.cpu[n]
                    /\ internal_drv'.sound = internal_drv.sound
            ELSE reg'.slot = {} /\ internal_drv' = internal_drv
       /\ op' = "machine_add_sound" =>
            IF FreeSound # {}
            THEN \E k \in FreeSound :
                    /\ \A n \in FreeSound : k <= n
                    /\ reg'.slot = {k}
                    /\ internal_drv'.sound[k] =
                           [tag |-> reg'.tag, sound_type |-> reg'.type,
                            sound_interface |-> reg'.param]
                    /\ \A n \in SoundSlots \ {k} :
                           internal_drv'.sound[n] = internal_drv.sound[n]
                    /\ internal_drv'.cpu = internal_drv.cpu
            ELSE reg'.slot = {} /\ internal_drv' = internal_drv]_vars

\* A CPU has just been refused by a full table, the sound table being full as well.
C14_Witness ==
    /\ op = "machine_add_cpu"
    /\ reg.slot = {}
    /\ reg.logerror = "Out of CPU's!"
    /\ FreeCpu = {}
    /\ FreeSound = {}

\* C15: machine_remove_cpu / machine_remove_sound with a tag whose first match is at
\* index i leaves the slots below i unchanged, moves every entry above i down by one in
\* order and zeroes the last slot, removing only the first of several matches; with a
\* tag that matches no slot, remove and find report not-found and leave the table
\* unchanged.
C15_RemoveCompacts ==
    [][/\ op' = "machine_remove_cpu" =>
            IF MatchCpu(reg'.tag) # {}
            THEN \E i \in MatchCpu(reg'.tag) :
                    /\ \A n \in MatchCpu(reg'.tag) : i <= n
                    /\ \A n \in CpuSlots :
                          internal_drv'.cpu[n] =
                             IF n < i THEN internal_drv.cpu[n]
                             ELSE IF n < MaxCpu - 1 THEN internal_drv.cpu[n + 1]
                             ELSE ZeroCpu
                    /\ internal_drv'.sound = internal_drv.sound
                    /\ reg'.logerror = ""
            ELSE reg'.logerror = "Can't find CPU" /\ internal_drv' = internal_drv
       /\ op' = "machine_remove_sound" =>
            IF MatchSound(reg'.tag) # {}
            THEN \E i \in MatchSound(reg'.tag) :
                    /\ \A n \in MatchSound(reg'.tag) : i <= n
                    /\ \A n \in SoundSlots :
                          internal_drv'.sound[n] =
                             IF n < i THEN internal_drv.sound[n]
                             ELSE IF n < MaxSound - 1 THEN internal_drv.sound[n + 1]
                             ELSE ZeroSound
                    /\ internal_drv'.cpu = internal_drv.cpu
                    /\ reg'.logerror = ""
            ELSE reg'.logerror = "Can't find sound" /\ internal_drv' = internal_drv
       /\ (op' = "machine_find_cpu" /\ MatchCpu(reg'.tag) = {}) =>
            /\ reg'.slot = {}
            /\ reg'.logerror = "Can't find CPU"
            /\ internal_drv' = internal_drv
       /\ (op' = "machine_find_sound" /\ MatchSound(reg'.tag) = {}) =>
            /\ reg'.slot = {}
            /\ reg'.logerror = "Can't find sound"
            /\ internal_drv' = internal_drv]_vars

\* The first of two CPUs with the same tag has just been removed from slot 0 of a full
\* table: the second one is still there, moved down.
C15_Witness ==
    /\ op = "machine_remove_cpu"
    /\ reg.slot = {0}
    /\ MatchCpu(reg.tag) # {}
    /\ FreeCpu = {MaxCpu - 1}

\* C16: from the zeroed table of expand_machine_driver, after any sequence of additions
\* and removals the occupied entries of the CPU table, and of the sound table, are
\* dense: some k has slots 0..k-1 all occupied and slots k..capacity-1 all empty.
C16_OccupiedSlotsDense ==
    /\ \E k \in 0..MaxCpu : FreeCpu = {n \in CpuSlots : n >= k}
    /\ \E k \in 0..MaxSound : FreeSound = {n \in SoundSlots : n >= k}

\* An entry has just been removed from the middle of a full CPU table, an entry having
\* been removed from the sound table too.
C16_Witness ==
    /\ op = "machine_remove_cpu"
    /\ reg.slot = {1}
    /\ FreeCpu = {MaxCpu - 1}
    /\ FreeSound = {MaxSound - 1}
    /\ internal_drv.sound[0].sound_interface = 30

(***************************************************************************)
(* The disk-image adapter                                                  *)
(***************************************************************************)
\* The names of the active driver and of its ancestors, the active driver first.
RECURSIVE Ancestry(_)
Ancestry(g) == IF g = 0 THEN << >> ELSE <<drivers[g].name>> \o Ancestry(drivers[g].clone_of)

ReadOnly(mode) == /\ mode # << >>
                  /\ Head(mode) = "r"
                  /\ \A n \in DOMAIN mode : mode[n] # "+"

\* C17: in a read-only mode (first character 'r', no '+') mame_chd_open tries the
\* active driver, then its parent, then the parent's parent, in that order, each as an
\* image opened for reading; it returns the first handle obtained without trying later
\* ancestors, NULL when the chain is exhausted, and never opens the differencing area.
\* In every other mode it makes exactly one open, for writing, in the differencing area,
\* and does not consult the chain.
C17_ChdOpenChain ==
    op = "mame_chd_open" =>
        LET chain == Ancestry(Machine.gamedrv)
            last == Len(chd.opens)
        IN  IF ReadOnly(chd.mode)
            THEN /\ last <= Len(chain)
                 /\ \A n \in 1..last :
                       /\ chd.opens[n] = [gamename |-> chain[n], filetype |-> "FILETYPE_IMAGE",
                                          openforwrite |-> 0]
                       /\ n < last => chain[n] \notin chd.exists
                 /\ IF \E n \in 1..Len(chain) : chain[n] \in chd.exists
                    THEN chd.ret = <<chd.opens[last]>> /\ chain[last] \in chd.exists
                    ELSE chd.ret = << >> /\ last = Len(chain)
            ELSE /\ chd.opens = <<[gamename |-> "NULL", filetype |-> "FILETYPE_IMAGE_DIFF",
                                   openforwrite |-> 1]>>
                 /\ chd.ret = IF chd.diff THEN chd.opens ELSE << >>

\* An image opened for reading has been found under the parent's parent only, for a
\* clone under whose own differencing area the image could be written.
C17_Witness ==
    /\ op = "mame_chd_open"
    /\ ReadOnly(chd.mode)
    /\ Len(chd.mode) > 1
    /\ Len(chd.opens) = 3
    /\ chd.ret # << >>
    /\ chd.diff

(***************************************************************************)
(* The layout arithmetic                                                   *)
(***************************************************************************)
\* The declared layout of the element decoded last, the bit length of its region and
\* the total its layout copy had before the raw mode looked at it.
Declared == gfx.info.gfxlayout
BitLength == 8 * gfx.length
ResolvedTotal == gfx.trail[1]

Resolved(declared, copy) ==
    \A j \in DOMAIN declared :
        copy[j] = IF declared[j].frac
                  THEN declared[j].value + (BitLength * declared[j].num) \div declared[j].den
                  ELSE declared[j].value

\* C18: over a region of L bits a fractional element count becomes
\* ((L / charincrement) * numerator) / denominator, the divisions truncating and taken
\* from left to right (for 1/4 and an increment of 8: (L / 8) / 4); a fractional plane,
\* X or Y offset becomes base_offset + (L * numerator) / denominator; a value that is
\* not fractional is left unchanged.
C18_FractionsResolved ==
    op = "decode_graphics" =>
        /\ ResolvedTotal =
               IF Declared.total.frac
               THEN ((BitLength \div Declared.charincrement) * Declared.total.num)
                       \div Declared.total.den
               ELSE Declared.total.value
        /\ (Declared.total = Frac(1, 4, 0) /\ Declared.charincrement = 8)
              => ResolvedTotal = (BitLength \div 8) \div 4
        /\ Resolved(Declared.planeoffset, gfx.glcopy.planeoffset)
        /\ Resolved(Declared.xoffset, gfx.glcopy.xoffset)
        /\ Resolved(Declared.yoffset, gfx.glcopy.yoffset)
        /\ gfx.glcopy.charincrement = Declared.charincrement
        /\ gfx.glcopy.height = Declared.height

\* A count of three quarters of a region whose division by the increment truncates, so
\* that multiplying first would give another count, with a fractional offset that
\* truncates too.
C18_Witness ==
    /\ op = "decode_graphics"
    /\ Declared.total = Frac(3, 4, 0)
    /\ ResolvedTotal > 0
    /\ ResolvedTotal # ((BitLength * 3) \div Declared.charincrement) \div 4
    /\ Declared.planeoffset[1] = Frac(1, 3, 4)
    /\ (BitLength * 1) % 3 # 0

\* The element decoded last is in raw mode.
RawMode == gfx.glcopy.planeoffset[0] = GFX_RAW

\* The highest byte addressed by the last of n elements lies inside the region.
Fits(n) ==
    gfx.info.start + ((n - 1) * gfx.glcopy.charincrement) \div 8
        + (gfx.glcopy.height * gfx.glcopy.yoffset[0]) \div 8 - 1 < gfx.length

\* C19: in raw mode the truncation loop terminates, never increases the count and never
\* takes it below 0; when the last element does not fit the region the count goes down
\* one at a time and stops at the largest count not above the initial one whose last
\* element fits, or at 0 if there is none; when the last element fits the count is
\* unchanged.
C19_RawTruncation ==
    (op = "decode_graphics" /\ RawMode) =>
        LET fitting == {n \in 1..ResolvedTotal : Fits(n)}
        IN  /\ gfx.glcopy.total = gfx.trail[Len(gfx.trail)]
            /\ \A n \in 2..Len(gfx.trail) : gfx.trail[n] = gfx.trail[n - 1] - 1
            /\ \A n \in 1..Len(gfx.trail) : gfx.trail[n] >= 0
            /\ gfx.glcopy.total <= ResolvedTotal
            /\ IF fitting = {}
               THEN gfx.glcopy.total = 0
               ELSE /\ gfx.glcopy.total \in fitting
                    /\ \A n \in fitting : n <= gfx.glcopy.total
            /\ (ResolvedTotal > 0 /\ Fits(ResolvedTotal)) => gfx.glcopy.total = ResolvedTotal
            /\ (ResolvedTotal > 0 /\ ~Fits(ResolvedTotal)) => gfx.glcopy.total < ResolvedTotal

\* A count has been taken down by more than one and has stopped above 0.
C19_Witness ==
    /\ op = "decode_graphics"
    /\ RawMode
    /\ Len(gfx.trail) > 2
    /\ gfx.glcopy.total > 0

(***************************************************************************)
(* Requests the scheduler ignores                                          *)
(***************************************************************************)
\* C20: a force_partial_update call made while the platform reports the frame as
\* skipped, or with a scanline below last_partial_scanline, changes nothing:
\* last_partial_scanline, full_refresh_pending and partial_updates_this_frame keep their
\* values, the frame bitmap is not cleared and the callback is not invoked; so a full
\* refresh scheduled before or during skipped frames is still pending when the platform
\* stops skipping.
C20_IgnoredRequestChangesNothing ==
    [][/\ (fpu'.calls = 1 /\ (skip # 0 \/ fpu'.scanline < last_partial_scanline))
             => UNCHANGED <<last_partial_scanline, full_refresh_pending, performance,
                            updates>>
       /\ (skip # 0 /\ full_refresh_pending # 0) => full_refresh_pending' # 0]_vars

\* A request at or above the scanline reached has just been ignored because the frame
\* is skipped, a full refresh being pending; earlier in the frame rows were rendered.
C20_Witness ==
    /\ op = "force_partial_update"
    /\ fpu.skip = 1
    /\ skip = 1
    /\ fpu.scanline >= last_partial_scanline
    /\ full_refresh_pending = 1
    /\ Rendered # {}
    /\ fpu.drew = 0

Max(a, b) == IF a > b THEN a ELSE b
Min(a, b) == IF a < b THEN a ELSE b

\* C21: a force_partial_update(scanline) on a frame that is not skipped, with scanline >=
\* last_partial_scanline, invokes the callback exactly once, on the rows
\* [max(last_partial_scanline, visible_area.min_y), min(scanline, visible_area.max_y)],
\* if and only if that range is not empty; partial_updates_this_frame goes up by one
\* exactly when the callback is invoked, so that it always equals the number of callbacks
\* since the latest reset_partial_updates; last_partial_scanline becomes scanline + 1
\* either way.
C21_ClippedUpdate ==
    [][/\ (fpu'.calls = 1 /\ fpu'.skip = 0 /\ fpu'.scanline >= last_partial_scanline)
             => LET lo == Max(last_partial_scanline, Machine.visible_area.min_y)
                    hi == Min(fpu'.scanline, Machine.visible_area.max_y)
                    n == Len(updates')
                IN  /\ fpu'.drew = IF lo <= hi THEN 1 ELSE 0
                    /\ lo <= hi => /\ n > 0
                                   /\ updates'[n].f = "video_update"
                                   /\ updates'[n].clip[1].min_y = lo
                                   /\ updates'[n].clip[1].max_y = hi
                    /\ performance'.partial_updates_this_frame
                          = performance.partial_updates_this_frame + fpu'.drew
                    /\ last_partial_scanline' = fpu'.scanline + 1
       /\ performance.partial_updates_this_frame = Callbacks(updates)
       /\ performance'.partial_updates_this_frame = Callbacks(updates')]_vars

\* A request above the scanline reached has just been served on a frame that is not
\* skipped without a callback, its rows lying above the visible area, after an earlier
\* request of the frame was rendered.
C21_Witness ==
    /\ op = "force_partial_update"
    /\ steady
    /\ fpu.skip = 0
    /\ fpu.drew = 0
    /\ fpu.scanline > Machine.visible_area.max_y
    /\ last_partial_scanline = fpu.scanline + 1
    /\ performance.partial_updates_this_frame = 1

\* The clears of the frame bitmap since the latest reset_partial_updates.
Cleared == {i \in DOMAIN updates : updates[i].f = "fillbitmap"}
Clears(u) == Cardinality({i \in DOMAIN u : u[i].f = "fillbitmap"})

\* No clear of the frame bitmap comes after a callback of the same frame.
ClearsFirst == \A i \in Cleared, j \in Rendered : i < j

\* C22 as stated: force_partial_update clears the frame bitmap and resets
\* full_refresh_pending exactly when, on a call that is neither skipped nor stale, a full
\* refresh is pending and nothing has been rendered yet in the frame.
C22_ClearAsStated ==
    [][fpu'.calls = 1 =>
          LET due == /\ fpu'.skip = 0
                     /\ fpu'.scanline >= last_partial_scanline
                     /\ full_refresh_pending # 0
                     /\ Rendered = {}
          IN  /\ Clears(updates') - Clears(updates) = IF due THEN 1 ELSE 0
              /\ full_refresh_pending' = IF due THEN 0 ELSE full_refresh_pending]_vars

\* C22 amended: force_partial_update clears the frame bitmap and resets
\* full_refresh_pending exactly when, on a call that is neither skipped nor stale, a full
\* refresh is pending and no request has been served yet in the frame
\* (last_partial_scanline = 0), and it does so before the callback of that call; the
\* bitmap is never cleared after rows have been rendered in the same frame, and a pending
\* flag is left untouched whenever something has been rendered in the frame.
C22_Clear ==
    [][/\ fpu'.calls = 1 =>
             LET due == /\ fpu'.skip = 0
                        /\ fpu'.scanline >= last_partial_scanline
                        /\ full_refresh_pending # 0
                        /\ last_partial_scanline = 0
             IN  /\ Clears(updates') - Clears(updates) = IF due THEN 1 ELSE 0
                 /\ full_refresh_pending' = IF due THEN 0 ELSE full_refresh_pending
                 /\ (due /\ fpu'.drew = 1)
                       => /\ updates'[Len(updates') - 1].f = "fillbitmap"
                          /\ updates'[Len(updates')].f = "video_update"
                 /\ Rendered # {} => /\ Clears(updates') = Clears(updates)
                                     /\ full_refresh_pending' = full_refresh_pending
       /\ ClearsFirst
       /\ ClearsFirst']_vars

\* A pending refresh has just been consumed by the first request of a frame: the bitmap
\* was cleared, then the callback was made.
C22_Witness ==
    /\ op = "force_partial_update"
    /\ fpu.skip = 0
    /\ fpu.drew = 1
    /\ Len(updates) = 2
    /\ updates[1].f = "fillbitmap"
    /\ updates[2].f = "video_update"
    /\ full_refresh_pending = 0

\* C23: a refresh requested by schedule_full_refresh or by mame_pause is never lost:
\* full_refresh_pending is set by the request and stays set until a force_partial_update
\* clears the bitmap; and, the visible area having max_y >= 0, a refresh pending when a
\* frame began with reset_partial_updates has been consumed when the draw_screen of that
\* frame ends, no frame having been skipped in between.
C23_RefreshConsumed ==
    [][/\ op' \in {"schedule_full_refresh", "mame_pause"} => full_refresh_pending' # 0
       /\ (full_refresh_pending # 0 /\ full_refresh_pending' = 0)
             => /\ fpu'.calls = 1
                /\ Clears(updates') = Clears(updates) + 1
       /\ (owed /\ fpu'.calls = 1 /\ op' \in {"draw_screen", "updatescreen"}
                /\ Machine.visible_area.max_y >= 0)
             => Cleared' # {}]_vars

\* A frame that began with a refresh pending has just been ended by draw_screen, the
\* first request of the frame having come from draw_screen itself.
C23_Witness ==
    /\ op \in {"draw_screen", "updatescreen"}
    /\ owed
    /\ fpu.calls = 1
    /\ fpu.skip = 0
    /\ Cleared # {}
    /\ requested = {Machine.visible_area.max_y}
    /\ full_refresh_pending = 0

\* draw_screen has just run on a frame that is not skipped, the visible area being the
\* one of the latest reset_partial_updates.
FrameDrawn ==
    /\ op \in {"draw_screen", "updatescreen"}
    /\ fpu.calls = 1
    /\ fpu.skip = 0
    /\ steady

\* C24: on a frame that is not skipped and whose visible area does not change, after
\* reset_partial_updates, any force_partial_update calls and the final draw_screen, every
\* scanline of [visible_area.min_y, visible_area.max_y] has been given to the callback
\* exactly once, last_partial_scanline is above visible_area.max_y and the
\* priority-overlay dirty flag is clear.
C24_FrameComplete ==
    FrameDrawn =>
        /\ RenderedRows = Machine.visible_area.min_y .. Machine.visible_area.max_y
        /\ \A y \in Machine.visible_area.min_y .. Machine.visible_area.max_y :
              Cardinality({i \in Rendered : y \in RowsOf(i)}) = 1
        /\ last_partial_scanline > Machine.visible_area.max_y
        /\ gbPriorityBitmapIsDirty = 0

\* draw_screen has just rendered the rest of a frame of which an earlier request had
\* rendered the top.
C24_Witness ==
    /\ FrameDrawn
    /\ op = "draw_screen"
    /\ fpu.drew = 1
    /\ Cardinality(Rendered) = 2
    /\ Machine.visible_area.min_y < Machine.visible_area.max_y

(***************************************************************************)
(* The video bring-up                                                      *)
(***************************************************************************)
\* C25: every video bring-up that gets as far as setting the default visible area
\* triggers the scanline-timing recomputation at least once and ends with both copies of
\* the visible area equal to the driver's default visible area, whatever the visible area
\* was before.
C25_BringUpRecomputes ==
    (Returned /\ Has("builduifont")) =>
        /\ recomputes >= 1
        /\ Machine.visible_area = drivers[gamedrv].default_visible_area
        /\ Machine.absolute_visible_area = drivers[gamedrv].default_visible_area

\* C26: the aspect ratio passed to the creation of the display is the driver's
\* aspect_x:aspect_y when both are declared non-zero, otherwise 4:3 when the dual-monitor
\* flag is clear and 4:6 when it is set.
C26_AspectRatio ==
    params.at = "artwork_create_display" =>
        params.aspect =
            IF params.drv.aspect_x # 0 /\ params.drv.aspect_y # 0
            THEN [x |-> params.drv.aspect_x, y |-> params.drv.aspect_y]
            ELSE IF "VIDEO_DUAL_MONITOR" \in params.drv.video_attributes
                 THEN [x |-> 4, y |-> 6]
                 ELSE [x |-> 4, y |-> 3]

(***************************************************************************)
(* The gate before the execution bracket                                   *)
(***************************************************************************)
\* The calls of the emulator start action.
StartCalls == {"init_user_interface", "artwork_enable(1)", "InitCheat",
               "nvram_handler(load)", "cpu_run"}

GateOpen == settingsloaded # 0 \/ options.skip_disclaimer # 0

\* C27: run_machine_core takes exactly one of three branches: with the input settings
\* loaded or skip_disclaimer set it arms the emulator start at once and shows no screen
\* if skip_warnings is set, and shows the warnings screen if not; otherwise it shows the
\* copyright screen.  The emulator start action never runs before the gate is passed.
C27_Gate ==
    /\ (Returned /\ rv = 0) =>
          /\ Count("run_machine_core") = 1
          /\ IF GateOpen /\ options.skip_warnings # 0
             THEN /\ pause_action = "pause_action_start_emulator"
                  /\ ~Has("showcopyright") /\ ~Has("showgamewarnings")
             ELSE IF GateOpen
             THEN /\ pause_action = "pause_action_showgamewarnings"
                  /\ ~Has("showcopyright") /\ Count("showgamewarnings") = 1
             ELSE /\ pause_action = "pause_action_showcopyright"
                  /\ Count("showcopyright") = 1 /\ ~Has("showgamewarnings")
          /\ \A f \in StartCalls \cup {"pause_action_start_emulator"} : ~Has(f)
    /\ \A f \in StartCalls :
          Has(f) => /\ Has("pause_action_start_emulator")
                    /\ First("pause_action_start_emulator") < First(f)
    /\ Has("pause_action_start_emulator") =>
          /\ Has("run_machine_core")
          /\ First("run_machine_core") < First("pause_action_start_emulator")
          /\ \/ GateOpen /\ options.skip_warnings # 0
             \/ /\ Has("showgamewarnings")
                /\ First("showgamewarnings") < First("pause_action_start_emulator")
          /\ Has("showcopyright") =>
                /\ Has("showgamewarnings")
                /\ First("showcopyright") < First("showgamewarnings")

\* The emulator has been started after both screens were shown and acknowledged.
C27_Witness ==
    /\ running
    /\ Has("cpu_run")
    /\ Has("showcopyright")
    /\ Has("showgamewarnings")
    /\ ~GateOpen

(***************************************************************************)
(* Sessions in sequence                                                    *)
(***************************************************************************)
\* The fields of the machine object that a session sets are as in a zeroed object.
MachineZeroed ==
    /\ Machine.input_ports = "null"
    /\ Machine.input_ports_default = "null"
    /\ \A r \in Regions : Machine.memory_region[r] = "null"
    /\ \A i \in DOMAIN Machine.gfx : Machine.gfx[i] = "null"
    /\ Machine.uifont = "null"
    /\ Machine.debugger_font = "null"
    /\ Machine.scrbitmap = "null"
    /\ Machine.visible_area = Rect(0, 0, 0, 0)
    /\ Machine.absolute_visible_area = Rect(0, 0, 0, 0)

\* C28: every session start zeroes the session-scoped state of the machine object before
\* anything else is initialised, so no field set by an earlier session is visible to or
\* released again by a later session; a session for a driver without input ports that
\* follows a session for a driver with input ports does not free the earlier session's
\* port instances a second time.
C28_SessionStartZeroes ==
    /\ (Returned /\ failed_at = "osd_init") => MachineZeroed
    /\ (sessions > 0 /\ ~drivers[gamedrv].input_ports)
          => /\ Machine.input_ports = "null"
             /\ Machine.input_ports_default = "null"
    /\ bad["input_ports"] = 0
    /\ bad["input_ports_default"] = 0

\* C29: mame_done performs the full teardown only if the latest session start succeeded
\* and has not been torn down yet; before any successful run_game, after a failed
\* run_game with no live session, or a second time after a teardown it performs no
\* teardown step; over any sequence of run_game and mame_done calls no session is torn
\* down twice and osd_exit is called at most once per successful osd_init.
C29_MameDoneLatch ==
    [][/\ op' = "mame_done" =>
             LET torn == calls' # calls
             IN  /\ torn => (sessions > 0 /\ rv = 0 /\ ~Has("mame_done"))
                 /\ (sessions = 0 \/ Has("mame_done") \/ game_loaded = 0) => ~torn
                 /\ game_loaded' = 0
       /\ Count("shutdown_machine") <= 1
       /\ Count("osd_exit") <= 1
       /\ bad["osd"] = 0]_vars

\* C30: in every session each stop action of the execution bracket is preceded by its
\* start action: StopCheat is called only if InitCheat was called in the same session,
\* and the NVRAM handler is called in save mode only after it was called in load mode in
\* the same session, also when the session is ended while waiting at the gate and for a
\* driver without ROMs started with the cheat option set.
C30_StopAfterStart ==
    /\ Has("StopCheat") => /\ Has("InitCheat")
                           /\ First("InitCheat") < First("StopCheat")
    /\ Has("nvram_handler(save)") => /\ Has("nvram_handler(load)")
                                     /\ First("nvram_handler(load)")
                                           < First("nvram_handler(save)")

====
